---- MODULE Spec2Model ----
(***************************************************************************)
(* A model of declio's derive macros (declio_derive/src/lib.rs) and of the *)
(* code they generate.  A schema is the input of the macros: a struct or   *)
(* an enum with its #[declio(...)] attributes.  `validate` is the          *)
(* macros' validation; the Encode*, Decode* and EncodedSize* actions are   *)
(* the statements of the generated encode, decode and encoded_size bodies, *)
(* run on a value, a caller context, a byte sink and a byte source.        *)
(***************************************************************************)
EXTENDS Integers, Sequences, FiniteSets, TLC

\* ------------------------------------------------------------------ bounds
\* Field values, literal tags and filler bytes are drawn from 0..MaxByte.
MaxByte == 2
\* A variant holds at most MaxFields fields.
MaxFields == 2
\* An enum holds at most MaxVariants variants.
MaxVariants == 2
\* A decode input carries at most MaxTrail bytes after the encoded value.
MaxTrail == 2
\* An error is wrapped at most MaxWrap times.
MaxWrap == 3
\* An adapter is called on payloads of up to MaxPayload bytes or elements.
MaxPayload == 256
\* The room of a writer that grows as it is written to.
Unbounded == 1000

\* ----------------------------------------------------------------- helpers
None == "None"

Byte == 0..MaxByte

RECURSIVE Concat(_)
Concat(ss) == IF ss = <<>> THEN <<>> ELSE Head(ss) \o Concat(Tail(ss))

RECURSIVE Sum(_)
Sum(ns) ==
    IF ns = <<>> THEN 0
    ELSE IF Len(ns) = 1 THEN ns[1]
    ELSE Sum(SubSeq(ns, 1, Len(ns) \div 2)) + Sum(SubSeq(ns, Len(ns) \div 2 + 1, Len(ns)))

Take(s, n) == SubSeq(s, 1, n)
Drop(s, n) == SubSeq(s, n + 1, Len(s))
Fill(b, n) == [i \in 1..n |-> b]

\* Asym<T>: one value for both capabilities (Single) or one per capability.
Single(v) == [encode |-> v, decode |-> v]
Multi(e, d) == [encode |-> e, decode |-> d]
Asym_is_some(a) == a.encode # None \/ a.decode # None
Asym_is_none(a) == ~Asym_is_some(a)

\* ---------------------------------------------------------------- contexts
\* A context value.  ctx::Endian is carried in .endian, a u8 tag handed down
\* by the caller in .id; the unit context () carries neither.
NoId == 0 - 1
UnitCtx == [endian |-> "-", id |-> NoId]
EndianCtx(e) == [endian |-> e, id |-> NoId]
IdCtx(i) == [endian |-> "-", id |-> i]

\* ------------------------------------------------------------------ errors
\* An Error is the chain of its frames, outermost first.
Frame(kind, label, n) == [kind |-> kind, label |-> label, n |-> n, expected |-> 0]
Custom(msg, n) == <<Frame("Custom", msg, n)>>
Other(cause) == <<Frame("Other", cause, 0)>>
RemainingBytes(n) == <<Frame("RemainingBytes", "", n)>>
UnexpectedLength(expected, received) ==
    <<[Frame("UnexpectedLength", "", received) EXCEPT !.expected = expected]>>
\* An error of the standard library, as Other boxes one.
Std(cause) == <<Frame("Std", cause, 0)>>
NoError == <<>>

Error_new(msg, n) == Custom(msg, n)
Error_wrap(cause) == Other(cause)

\* Error::with_context(label, e), as the generated code calls it: the tag
\* labels give TagError(e), the field labels FieldError(field, e).
Error_with_context(what, field, e) ==
    IF what = "enum id"
    THEN <<Frame("TagError", "", 0)>> \o e
    ELSE <<Frame("FieldError", field, 0)>> \o e

\* source() returning None: the error wraps no other.
NoSource == <<>>

\* source() giving up the cause of a FieldError.
source_without_field_cause(e) ==
    IF e[1].kind = "TagError" THEN Tail(e)
    ELSE IF e[1].kind = "Other" THEN Std(e[1].label)
    ELSE NoSource

\* <Error as std::error::Error>::source: the boxed inner error of TagError,
\* FieldError and Other, None of the other kinds.
source(e) ==
    IF e[1].kind \in {"TagError", "FieldError"} THEN Tail(e)
    ELSE IF e[1].kind = "Other" THEN Std(e[1].label)
    ELSE NoSource

\* ------------------------------------------------------------ leaf codecs
\* Results of a codec call.
EncOk(bytes) == [ok |-> TRUE, bytes |-> bytes, err |-> NoError]
EncErr(bytes, e) == [ok |-> FALSE, bytes |-> bytes, err |-> e]
DecOk(v, rest) == [ok |-> TRUE, val |-> v, rest |-> rest, err |-> NoError]
DecErr(rest, e) == [ok |-> FALSE, val |-> 0, rest |-> rest, err |-> e]

Width(ty) == IF ty = "u8" THEN 1 ELSE IF ty = "u16" THEN 2 ELSE 4

\* The n low bytes of v, least significant first.
RECURSIVE LeBytes(_, _)
LeBytes(v, n) == IF n = 0 THEN <<>> ELSE <<v % 256>> \o LeBytes(v \div 256, n - 1)

Reverse(s) == [i \in 1..Len(s) |-> s[Len(s) + 1 - i]]

RECURSIVE LeValue(_)
LeValue(bs) == IF bs = <<>> THEN 0 ELSE Head(bs) + 256 * LeValue(Tail(bs))

IntBytes(v, n, endian) == IF endian = "Little" THEN LeBytes(v, n) ELSE Reverse(LeBytes(v, n))
IntValue(bs, endian) == IF endian = "Little" THEN LeValue(bs) ELSE LeValue(Reverse(bs))

\* read_exact of n bytes: a short source is an io::Error (UnexpectedEof),
\* which From<io::Error> turns into Error::Other.
ReadInt(n, endian, src) ==
    IF Len(src) < n
    THEN DecErr(src, Error_wrap("UnexpectedEof"))
    ELSE DecOk(IntValue(Take(src, n), endian), Drop(src, n))

\* The primitive integers: u8 is one byte under any context, u16 and u32
\* are laid out in the byte order the context names.
PrimEncode(ty, v, c) == EncOk(IntBytes(v, Width(ty), IF ty = "u8" THEN "Little" ELSE c.endian))
PrimDecode(ty, c, src) == ReadInt(Width(ty), IF ty = "u8" THEN "Little" ELSE c.endian, src)
PrimEncodedSize(ty, v, c) == Width(ty)

\* util::BigEndian<T>: the inner value under Endian::Big, whatever the
\* context; its size is the inner value's size under the context.
BigEndianEncode(v, c) == PrimEncode("u32", v, EndianCtx("Big"))
BigEndianDecode(c, src) == PrimDecode("u32", EndianCtx("Big"), src)
BigEndianEncodedSize(v, c) == PrimEncodedSize("u32", v, c)

\* mod little_endian of tests/derive.rs, a hook module for u32 fields.
little_endian_encode(v, c) == PrimEncode("u32", v, EndianCtx("Little"))
little_endian_decode(c, src) == PrimDecode("u32", EndianCtx("Little"), src)
little_endian_encoded_size(v, c) == 4

\* A hook pair a user supplies through encode_with / decode_with (the macro
\* takes any path): a u32 stored in one byte, refusing what does not fit.
narrow_encode(v, c) ==
    IF v < 256 THEN PrimEncode("u8", v, UnitCtx) ELSE EncErr(<<>>, Error_wrap("TryFromIntError"))
narrow_decode(c, src) == PrimDecode("u8", UnitCtx, src)

\* Another such pair: a u32 stored as its low byte followed by the rest in
\* one byte; encode writes the low byte, then refuses a rest that does not
\* fit.
split_encode(v, c) ==
    LET low == PrimEncode("u8", v % 256, UnitCtx)
    IN  IF v \div 256 < 256 THEN EncOk(low.bytes \o PrimEncode("u8", v \div 256, UnitCtx).bytes)
        ELSE EncErr(low.bytes, Error_wrap("TryFromIntError"))
split_decode(c, src) == PrimDecode("u16", EndianCtx("Little"), src)

\* ------------------------------------------------- the adapters of util.rs
\* Write::write_all on a writer with room for `room` more bytes (a Vec has
\* room for all): what fits is written, and a buffer that does not fit
\* whole is an io::Error (WriteZero), which `?` turns into Error::Other.
write_all(room, bytes) ==
    IF Len(bytes) <= room THEN EncOk(bytes)
    ELSE EncErr(Take(bytes, room), Error_wrap("WriteZero"))

\* A second write after the result r of a first one.
then_write_all(r, room, bytes) ==
    IF ~r.ok THEN r
    ELSE LET w == write_all(room - Len(r.bytes), bytes)
         IN  [ok |-> w.ok, bytes |-> r.bytes \o w.bytes, err |-> w.err]

\* read_exact of n bytes.
read_exact(n, src) ==
    IF Len(src) < n THEN DecErr(src, Error_wrap("UnexpectedEof")) ELSE DecOk(Take(src, n), Drop(src, n))

\* mod zero_one: a bool as the byte 0 or 1, whatever the context.
zero_one_encode(b, c, room) == write_all(room, PrimEncode("u8", IF b THEN 1 ELSE 0, UnitCtx).bytes)

\* zero_one::decode taking every byte but 0 for true.
zero_one_decode_lenient(c, src) ==
    LET r == PrimDecode("u8", UnitCtx, src)
    IN  IF ~r.ok THEN r ELSE DecOk(r.val # 0, r.rest)

zero_one_decode(c, src) ==
    LET r == PrimDecode("u8", UnitCtx, src)
    IN  IF ~r.ok THEN r
        ELSE IF r.val = 0 THEN DecOk(FALSE, r.rest)
        ELSE IF r.val = 1 THEN DecOk(TRUE, r.rest)
        ELSE DecErr(r.rest, Error_new("invalid byte value for boolean: expected 0 or 1", r.val))
zero_one_encoded_size(b, c) == 1

\* struct ZeroOne(bool): the same through the wrapper type.
ZeroOne_encode(b, c, room) == zero_one_encode(b, UnitCtx, room)
ZeroOne_decode(c, src) == zero_one_decode(UnitCtx, src)
ZeroOne_encoded_size(b, c) == zero_one_encoded_size(b, c)

\* The prefix types P: u8, u16 and i8 with their ranges, TryFrom<usize>
\* and TryInto<usize>, and their own codecs.
PrefixMax(P) == IF P = "u8" THEN 255 ELSE IF P = "i8" THEN 127 ELSE 65535
PrefixWidth(P) == IF P = "u16" THEN 2 ELSE 1
TryFromUsize(P, n) == n <= PrefixMax(P)
TryIntoUsize(P, v) == v >= 0
PrefixBytes(P, n, c) ==
    IntBytes(n, PrefixWidth(P), IF P = "u16" THEN c.endian ELSE "Little")
PrefixDecode(P, c, src) ==
    LET r == ReadInt(PrefixWidth(P), IF P = "u16" THEN c.endian ELSE "Little", src)
    IN  IF r.ok /\ P = "i8" /\ r.val > PrefixMax(P) THEN DecOk(r.val - 256, r.rest) ELSE r
default_encoded_size(P, c) == PrefixWidth(P)

\* Bytes<P>::encode checking the length only after it wrote the prefix.
Bytes_encode_writes_first(P, b, c, room) ==
    LET size == write_all(room, PrefixBytes(P, Len(b) % (PrefixMax(P) + 1), c))
    IN  IF ~TryFromUsize(P, Len(b)) THEN EncErr(size.bytes, Error_new("TryFromIntError", 0))
        ELSE then_write_all(size, room, b)

\* Bytes<P>: the length as a P under the context, then the bytes.
Bytes_encode(P, b, c, room) ==
    IF ~TryFromUsize(P, Len(b)) THEN EncErr(<<>>, Error_new("TryFromIntError", 0))
    ELSE then_write_all(write_all(room, PrefixBytes(P, Len(b), c)), room, b)

\* Bytes<P>::decode taking the rest of the source as the payload.
Bytes_decode_to_end(P, c, src) ==
    LET size == PrefixDecode(P, c, src)
    IN  IF ~size.ok THEN size
        ELSE IF ~TryIntoUsize(P, size.val) THEN DecErr(size.rest, Error_new("TryFromIntError", 0))
        ELSE read_exact(Len(size.rest), size.rest)

Bytes_decode(P, c, src) ==
    LET size == PrefixDecode(P, c, src)
    IN  IF ~size.ok THEN size
        ELSE IF ~TryIntoUsize(P, size.val) THEN DecErr(size.rest, Error_new("TryFromIntError", 0))
        ELSE read_exact(size.val, size.rest)
Bytes_encoded_size(P, b, c) == default_encoded_size(P, c) + Len(b)

\* [A]::encode((ctx,)) and Vec<A>::decode((Len(n), ctx)): the elements in
\* order, each under ctx.  The elements are u8 or u16.
RECURSIVE slice_encode(_, _, _, _)
slice_encode(A, v, c, room) ==
    IF v = <<>> THEN EncOk(<<>>)
    ELSE IF Len(v) = 1 THEN write_all(room, PrimEncode(A, v[1], c).bytes)
    ELSE LET h == Len(v) \div 2
             first == slice_encode(A, Take(v, h), c, room)
             rest == slice_encode(A, Drop(v, h), c, room - Len(first.bytes))
         IN  IF ~first.ok THEN first
             ELSE [ok |-> rest.ok, bytes |-> first.bytes \o rest.bytes, err |-> rest.err]

RECURSIVE vec_decode(_, _, _, _)
vec_decode(A, n, c, src) ==
    IF n = 0 THEN DecOk(<<>>, src)
    ELSE IF n = 1
    THEN LET e == PrimDecode(A, c, src)
         IN  IF ~e.ok THEN e ELSE DecOk(<<e.val>>, e.rest)
    ELSE LET h == n \div 2
             first == vec_decode(A, h, c, src)
             rest == vec_decode(A, n - h, c, first.rest)
         IN  IF ~first.ok THEN first
             ELSE IF ~rest.ok THEN rest
             ELSE DecOk(first.val \o rest.val, rest.rest)

\* PrefixVec<P, A>::encode prefixing the number of bytes.
PrefixVec_encode_byte_count(P, A, v, c, room) ==
    IF ~TryFromUsize(P, Len(v) * Width(A)) THEN EncErr(<<>>, Error_new("TryFromIntError", 0))
    ELSE LET size == write_all(room, PrefixBytes(P, Len(v) * Width(A), c))
             els == slice_encode(A, v, c, room - Len(size.bytes))
         IN  IF ~size.ok THEN size
             ELSE [ok |-> els.ok, bytes |-> size.bytes \o els.bytes, err |-> els.err]

\* PrefixVec<P, A>: the number of elements as a P, then the elements.
PrefixVec_encode(P, A, v, c, room) ==
    IF ~TryFromUsize(P, Len(v)) THEN EncErr(<<>>, Error_new("TryFromIntError", 0))
    ELSE LET size == write_all(room, PrefixBytes(P, Len(v), c))
             els == slice_encode(A, v, c, room - Len(size.bytes))
         IN  IF ~size.ok THEN size
             ELSE [ok |-> els.ok, bytes |-> size.bytes \o els.bytes, err |-> els.err]
PrefixVec_decode(P, A, c, src) ==
    LET size == PrefixDecode(P, c, src)
    IN  IF ~size.ok THEN size
        ELSE IF ~TryIntoUsize(P, size.val) THEN DecErr(size.rest, Error_new("TryFromIntError", 0))
        ELSE vec_decode(A, size.val, c, size.rest)
PrefixVec_encoded_size(P, A, v, c) ==
    default_encoded_size(P, c) + Sum([i \in 1..Len(v) |-> PrimEncodedSize(A, v[i], c)])

\* String::from_utf8: the well-formed byte sequences of UTF-8.
Cont(b, lo, hi) == b >= lo /\ b <= hi
RECURSIVE from_utf8(_)
from_utf8(bs) ==
    IF bs = <<>> THEN TRUE
    ELSE LET b == bs[1]
             n == Len(bs)
         IN  IF b < 128 THEN from_utf8(Tail(bs))
             ELSE IF Cont(b, 194, 223)
             THEN n >= 2 /\ Cont(bs[2], 128, 191) /\ from_utf8(Drop(bs, 2))
             ELSE IF Cont(b, 224, 239)
             THEN /\ n >= 3
                  /\ Cont(bs[2], IF b = 224 THEN 160 ELSE 128, IF b = 237 THEN 159 ELSE 191)
                  /\ Cont(bs[3], 128, 191) /\ from_utf8(Drop(bs, 3))
             ELSE IF Cont(b, 240, 244)
             THEN /\ n >= 4
                  /\ Cont(bs[2], IF b = 240 THEN 144 ELSE 128, IF b = 244 THEN 143 ELSE 191)
                  /\ Cont(bs[3], 128, 191) /\ Cont(bs[4], 128, 191) /\ from_utf8(Drop(bs, 4))
             ELSE FALSE

\* mod utf8 under ctx::Len(n): the bytes of the string; n bytes read and
\* validated, a FromUtf8Error turned into Error::Other by `?`.
utf8_encode(str, c, room) == write_all(room, str)
\* utf8::decode reporting invalid bytes as a message of its own.
utf8_decode_message(n, src) ==
    LET bytes == read_exact(n, src)
    IN  IF ~bytes.ok THEN bytes
        ELSE IF ~from_utf8(bytes.val) THEN DecErr(bytes.rest, Error_new("invalid utf-8", 0))
        ELSE bytes

utf8_decode(n, src) ==
    LET bytes == read_exact(n, src)
    IN  IF ~bytes.ok THEN bytes
        ELSE IF ~from_utf8(bytes.val) THEN DecErr(bytes.rest, Error_wrap("FromUtf8Error"))
        ELSE bytes

\* magic_bytes! { Foo(b"FOO"); Bar(b"BAR"); }
MagicBytes(name) == IF name = "Foo" THEN <<70, 79, 79>> ELSE <<66, 65, 82>>
magic_encode(name, c, room) == write_all(room, MagicBytes(name))

\* A decode that reads the bytes and does not compare them.
magic_decode_unchecked(name, c, src) ==
    LET bytes == read_exact(Len(MagicBytes(name)), src)
    IN  IF ~bytes.ok THEN bytes ELSE DecOk(name, bytes.rest)

magic_decode(name, c, src) ==
    LET bytes == read_exact(Len(MagicBytes(name)), src)
    IN  IF ~bytes.ok THEN bytes
        ELSE IF bytes.val # MagicBytes(name)
        THEN DecErr(bytes.rest, Error_new("magic bytes mismatch", 0))
        ELSE DecOk(name, bytes.rest)
magic_encoded_size(name, c) == Len(MagicBytes(name))

\* A codec is named by the path the macro pastes into the generated call:
\* <ty as Encode<_>>::encode for a type, module::encode for a hook.
\* A field of type Inner, a struct the macros were applied to themselves,
\* is written, read and sized by the code generated for Inner:
\* struct Inner { #[declio(encode_with = .., decode_with = ..)] y: u32 },
\* whose value is written here as the value of its one field.
InnerEncode(v, c) ==
    LET r == narrow_encode(v, c)
    IN  IF r.ok THEN r ELSE EncErr(r.bytes, Error_with_context("field", "y", r.err))
InnerDecode(c, src) ==
    LET r == narrow_decode(c, src)
    IN  IF r.ok THEN r ELSE DecErr(r.rest, Error_with_context("field", "y", r.err))
InnerEncodedSize(v, c) == PrimEncodedSize("u32", v, c)

TypeEncode(ty, v, c) ==
    IF ty = "BigEndian<u32>" THEN BigEndianEncode(v, c)
    ELSE IF ty = "Inner" THEN InnerEncode(v, c)
    ELSE PrimEncode(ty, v, c)
TypeDecode(ty, c, src) ==
    IF ty = "BigEndian<u32>" THEN BigEndianDecode(c, src)
    ELSE IF ty = "Inner" THEN InnerDecode(c, src)
    ELSE PrimDecode(ty, c, src)
TypeEncodedSize(ty, v, c) ==
    IF ty = "BigEndian<u32>" THEN BigEndianEncodedSize(v, c)
    ELSE IF ty = "Inner" THEN InnerEncodedSize(v, c)
    ELSE PrimEncodedSize(ty, v, c)

CallEncode(path, v, c) ==
    IF path.hook = "little_endian" THEN little_endian_encode(v, c)
    ELSE IF path.hook = "narrow" THEN narrow_encode(v, c)
    ELSE IF path.hook = "split" THEN split_encode(v, c)
    ELSE TypeEncode(path.ty, v, c)
CallDecode(path, c, src) ==
    IF path.hook = "little_endian" THEN little_endian_decode(c, src)
    ELSE IF path.hook = "narrow" THEN narrow_decode(c, src)
    ELSE IF path.hook = "split" THEN split_decode(c, src)
    ELSE TypeDecode(path.ty, c, src)
CallEncodedSize(path, v, c) ==
    IF path.hook = "little_endian" THEN little_endian_encoded_size(v, c)
    ELSE TypeEncodedSize(path.ty, v, c)

\* Default::default() of a field type.
Default(ty) == 0

\* ------------------------------------------------------ the macros' input
\* FieldReceiver: ident (None for a positional field), ty, ctx, with,
\* encode_with, decode_with, skip_if.  A skip_if is the test `*x == c` on
\* the field at position `on` (on = 0: no skip_if).
NoSkip == [on |-> 0, eq |-> 0]
SkipIfEq(on, c) == [on |-> on, eq |-> c]

FieldReceiver(ident, ty) ==
    [ident |-> ident, ty |-> ty, ctx |-> Single(None), with |-> None,
     encode_with |-> None, decode_with |-> None, skip_if |-> NoSkip, via |-> None]

\* VariantReceiver: the literal id and the fields; a struct's fields are
\* held the same way, with no id.
VariantReceiver(id, style, fields) == [id |-> id, style |-> style, fields |-> fields]

\* ContainerReceiver: data (struct or enum) and the container attributes.
ContainerReceiver(kind, variants) ==
    [kind |-> kind, ctx |-> Single(None), ctx_is |-> Single(None),
     id_expr |-> Single(None), id_type |-> None, id_ctx |-> Single(None),
     variants |-> variants]

\* ---------------------------------------------------------------- validate
\* Positional fields named from 1.
public_ref_ident_one_based(ident, index) ==
    IF ident # None THEN ident ELSE <<"field_1", "field_2", "field_3", "field_4">>[index + 1]

public_ref_ident(ident, index) ==
    IF ident # None THEN ident ELSE <<"field_0", "field_1", "field_2", "field_3">>[index + 1]

Path(hook, ty) == [hook |-> hook, ty |-> ty]

FieldEncoderErrors(f) ==
    IF f.encode_with # None /\ f.with # None
    THEN <<"encode_with and with are incompatible with each other">> ELSE <<>>

\* No check of decode_with against with.
FieldDecoderErrors_unchecked(f) == <<>>

FieldDecoderErrors(f) ==
    IF f.decode_with # None /\ f.with # None
    THEN <<"decode_with and with are incompatible with each other">> ELSE <<>>

FieldEncoder(f) ==
    IF f.encode_with = None /\ f.with = None THEN Path(None, f.ty)
    ELSE IF f.with = None THEN Path(f.encode_with, f.ty)
    ELSE IF f.encode_with = None THEN Path(f.with, f.ty)
    ELSE Path("__compile_error_throwaway", f.ty)

\* A decoder taken from the encode hook.
FieldDecoder_from_encode_with(f) ==
    IF f.encode_with = None /\ f.with = None THEN Path(None, f.ty)
    ELSE IF f.with = None THEN Path(f.encode_with, f.ty)
    ELSE IF f.encode_with = None THEN Path(f.with, f.ty)
    ELSE Path("__compile_error_throwaway", f.ty)

FieldDecoder(f) ==
    IF f.decode_with = None /\ f.with = None THEN Path(None, f.ty)
    ELSE IF f.with = None THEN Path(f.decode_with, f.ty)
    ELSE IF f.decode_with = None THEN Path(f.with, f.ty)
    ELSE Path("__compile_error_throwaway", f.ty)

\* An encoded_size that follows the separate encode hook.
FieldEncodedSize_from_encode_with(f) ==
    IF f.encode_with # None THEN Path(f.encode_with, f.ty)
    ELSE IF f.with = None THEN Path(None, f.ty) ELSE Path(f.with, f.ty)

FieldEncodedSize(f) == IF f.with = None THEN Path(None, f.ty) ELSE Path(f.with, f.ty)

\* FieldReceiver::validate: the FieldData of a field, and its errors.
FieldReceiver_validate(f, index) ==
    [errors |-> FieldEncoderErrors(f) \o FieldDecoderErrors(f),
     data |-> [public_ref_ident |-> public_ref_ident(f.ident, index),
               ty |-> f.ty,
               encode_ctx |-> f.ctx.encode,
               decode_ctx |-> f.ctx.decode,
               encoder |-> FieldEncoder(f),
               decoder |-> FieldDecoder(f),
               encoded_size |-> FieldEncodedSize(f),
               skip_if |-> f.skip_if]]

FieldsErrors(fields) ==
    Concat([i \in 1..Len(fields) |-> FieldReceiver_validate(fields[i], i - 1).errors])
FieldsData(fields) ==
    [i \in 1..Len(fields) |-> FieldReceiver_validate(fields[i], i - 1).data]

\* VariantReceiver::validate and VariantData::from_struct: the pattern of
\* an enum variant is `__declio_id if __declio_id == id`, of a struct `_`.
VariantReceiver_validate(v) ==
    [errors |-> FieldsErrors(v.fields),
     data |-> [id_expr |-> v.id, id_pat |-> [wild |-> FALSE, id |-> v.id],
               style |-> v.style, fields |-> FieldsData(v.fields)]]

VariantData_from_struct(v) ==
    [errors |-> FieldsErrors(v.fields),
     data |-> [id_expr |-> NoId, id_pat |-> [wild |-> TRUE, id |-> NoId],
               style |-> v.style, fields |-> FieldsData(v.fields)]]

VariantsValidated(r) ==
    [i \in 1..Len(r.variants) |->
        IF r.kind = "enum" THEN VariantReceiver_validate(r.variants[i])
        ELSE VariantData_from_struct(r.variants[i])]

IdSourceErrors(r) ==
    IF r.id_expr.decode # None /\ r.id_type # None
    THEN <<"id_expr(decode) and id_type are incompatible with each other">>
    ELSE <<>>

\* An enum must name the tag its decode dispatches on.
ShapeErrors_requires_decode_tag(r) ==
    (IF r.kind = "struct" /\ Asym_is_some(r.id_expr) THEN <<"Unknown field: id_expr">> ELSE <<>>)
    \o (IF r.kind = "struct" /\ r.id_type # None THEN <<"Unknown field: id_type">> ELSE <<>>)
    \o (IF r.kind = "enum" /\ r.id_expr.decode = None /\ r.id_type = None
        THEN <<"either id_expr or id_type is required for enums">> ELSE <<>>)

\* Only id_type is refused on a struct.
ShapeErrors_struct_id_expr(r) ==
    (IF r.kind = "struct" /\ r.id_type # None THEN <<"Unknown field: id_type">> ELSE <<>>)
    \o (IF r.kind = "enum" /\ Asym_is_none(r.id_expr) /\ r.id_type = None
        THEN <<"either id_expr or id_type is required for enums">> ELSE <<>>)

ShapeErrors(r) ==
    (IF r.kind = "struct" /\ Asym_is_some(r.id_expr) THEN <<"Unknown field: id_expr">> ELSE <<>>)
    \o (IF r.kind = "struct" /\ r.id_type # None THEN <<"Unknown field: id_type">> ELSE <<>>)
    \o (IF r.kind = "enum" /\ Asym_is_none(r.id_expr) /\ r.id_type = None
        THEN <<"either id_expr or id_type is required for enums">> ELSE <<>>)

\* The expression a generated decode matches on when no id_type decodes it.
id_decode_expr(r) ==
    IF r.id_expr.decode = None /\ r.id_type = None THEN "()"
    ELSE IF r.id_type = None THEN r.id_expr.decode
    ELSE None

parse_id_ctx(arg) == IF arg = None THEN "()" ELSE arg

\* ContainerReceiver::validate: the ContainerData the macros generate from,
\* or the errors they report instead.
validate(r) ==
    LET vs == VariantsValidated(r)
        errors == IdSourceErrors(r) \o ShapeErrors(r)
                  \o Concat([i \in 1..Len(vs) |-> vs[i].errors])
    IN  [ok |-> errors = <<>>,
         errors |-> errors,
         data |-> [encode_ctx_is |-> r.ctx_is.encode,
                   decode_ctx_is |-> r.ctx_is.decode,
                   encode_ctx_pat |-> r.ctx.encode,
                   decode_ctx_pat |-> r.ctx.decode,
                   id_encode_ctx |-> parse_id_ctx(r.id_ctx.encode),
                   id_decode_ctx |-> parse_id_ctx(r.id_ctx.decode),
                   id_encoder |-> IF r.id_expr.decode = None THEN r.id_type ELSE None,
                   id_decoder |-> IF r.id_expr.decode = None THEN r.id_type ELSE None,
                   id_encoded_size |-> IF r.id_expr.decode = None THEN r.id_type ELSE None,
                   id_check_expr |-> r.id_expr.encode,
                   id_decode_expr |-> id_decode_expr(r),
                   variants |-> [i \in 1..Len(vs) |-> vs[i].data]]]

\* FromField for FieldReceiver, as darling derives it: an attribute the
\* struct does not declare is an error.  `via` is the one the tests write.
from_field(f) == IF f.via # None THEN <<"Unknown field: via">> ELSE <<>>

\* FromDeriveInput for ContainerReceiver: the errors of all its fields.
from_derive_input(r) ==
    Concat([i \in 1..Len(r.variants) |->
        Concat([k \in 1..Len(r.variants[i].fields) |-> from_field(r.variants[i].fields[k])])])

\* The body of the three derive functions up to the choice of impl:
\* from_derive_input, and then validate.
derive(r) ==
    IF from_derive_input(r) # <<>> THEN [ok |-> FALSE, errors |-> from_derive_input(r)]
    ELSE [ok |-> validate(r).ok, errors |-> validate(r).errors]

\* ------------------------------------------- what the compiler accepts
\* The names a generated body binds for the caller's context: the declared
\* pattern, or `ctx` of the fresh generic parameter `Ctx: Copy`.
ctx_binding(pat) == IF pat = None THEN "ctx" ELSE pat

\* The static type of a context or id expression in a body whose context
\* pattern is pat; "unbound" when it names nothing in scope.
ExprType(expr, pat) ==
    IF expr \in {"Little", "Big"} THEN "Endian"
    ELSE IF expr = "()" THEN "unit"
    ELSE IF expr # ctx_binding(pat) THEN "unbound"
    ELSE IF pat = "endian" THEN "Endian"
    ELSE IF pat = "id" THEN "u8"
    ELSE "Ctx"

\* A type's own Encode/Decode needs Endian for u16 and u32; u8, BigEndian
\* and the hook functions take any context.
TakesCtx(path, t) ==
    IF path.hook = None /\ path.ty \in {"u16", "u32"} THEN t = "Endian" ELSE t # "unbound"

\* The hook functions take a &u32; narrow has no encoded_size.
HookFits(fd) ==
    /\ \A p \in {fd.encoder, fd.decoder, fd.encoded_size} : p.hook # None => p.ty = "u32"
    /\ fd.encoded_size.hook \in {None, "little_endian"}

\* actual_ctx with the container's ctx_is ahead of the field's own ctx.
actual_ctx_container_first(field_ctx, ctx_is, ctx_pat) ==
    IF ctx_is # None THEN ctx_is
    ELSE IF field_ctx # None THEN field_ctx
    ELSE ctx_binding(ctx_pat)

actual_ctx(field_ctx, ctx_is, ctx_pat) ==
    IF field_ctx # None THEN field_ctx
    ELSE IF ctx_is # None THEN ctx_is
    ELSE ctx_binding(ctx_pat)

FieldWellTyped(cd, vd, k) ==
    LET fd == vd.fields[k]
    IN  /\ HookFits(fd)
        /\ TakesCtx(fd.encoder,
                    ExprType(actual_ctx(fd.encode_ctx, cd.encode_ctx_is, cd.encode_ctx_pat),
                             cd.encode_ctx_pat))
        /\ TakesCtx(fd.decoder,
                    ExprType(actual_ctx(fd.decode_ctx, cd.decode_ctx_is, cd.decode_ctx_pat),
                             cd.decode_ctx_pat))
        /\ fd.skip_if.on # 0 =>
              (fd.skip_if.on <= Len(vd.fields) /\ vd.fields[fd.skip_if.on].ty = "u8")

\* The generated encode and encoded_size type-check.
EncodeWellTyped(r) ==
    LET cd == validate(r).data
    IN  /\ \A i \in 1..Len(cd.variants) :
              \A k \in 1..Len(cd.variants[i].fields) : FieldWellTyped(cd, cd.variants[i], k)
        /\ cd.id_encoder # None =>
              /\ TakesCtx(Path(None, cd.id_encoder), ExprType(cd.id_encode_ctx, cd.encode_ctx_pat))
              /\ TakesCtx(Path(None, cd.id_decoder), ExprType(cd.id_decode_ctx, cd.decode_ctx_pat))
        /\ cd.id_check_expr # None => ExprType(cd.id_check_expr, cd.encode_ctx_pat) = "u8"

\* The generated decode type-checks as well: what it matches on has the
\* type of the variants' ids.
WellTyped(r) ==
    LET cd == validate(r).data
    IN  /\ EncodeWellTyped(r)
        /\ r.kind = "enum" /\ cd.id_decoder = None =>
              ExprType(cd.id_decode_expr, cd.decode_ctx_pat) = "u8"
        /\ \A i \in 1..Len(cd.variants) : \A k \in 1..Len(cd.variants[i].fields) :
              cd.variants[i].fields[k].skip_if.on < k

\* ------------------------------------------------------------ the schemas
FieldNames == <<"x", "y", "z", "w">>
Ident(named, i) == IF named THEN FieldNames[i] ELSE None

U32Field == FieldReceiver(None, "u32")

\* Field declarations beyond a plain u8: the other types, context
\* overrides (single and split), hook modules, hook pairs, and the two
\* combinations FieldReceiver::validate refuses, and an adapter type given
\* by the attribute `via`.
FieldTemplates ==
    {FieldReceiver(None, t) : t \in {"u32", "BigEndian<u32>", "Inner"}}
    \cup {[U32Field EXCEPT !.ctx = a] :
            a \in {Single("Little"), Single("Big"), Single("endian"),
                   Multi("Little", "Big"), Multi("endian", None)}}
    \cup {[U32Field EXCEPT !.with = "little_endian", !.ctx = a] : a \in {Single(None), Single("Big")}}
    \cup {[U32Field EXCEPT !.encode_with = h, !.decode_with = h] : h \in {"little_endian", "narrow", "split"}}
    \cup {[U32Field EXCEPT !.encode_with = "little_endian"]}
    \cup {[U32Field EXCEPT !.via = "BigEndian<u32>"]}
    \cup {[U32Field EXCEPT !.with = "little_endian", !.encode_with = "little_endian"],
          [U32Field EXCEPT !.with = "little_endian", !.decode_with = "little_endian"]}

\* Fields with a skip_if on the first field, as SkipIf of tests/derive.rs.
SkipTemplates ==
    {[FieldReceiver(None, t) EXCEPT !.skip_if = SkipIfEq(1, 1)] : t \in {"u8", "BigEndian<u32>"}}

\* A field with a skip_if on itself or on a field declared after it.
LateSkip(on) == [FieldReceiver(None, "u8") EXCEPT !.skip_if = SkipIfEq(on, 1)]

FieldList(named, n, p, t) ==
    [i \in 1..n |-> IF i = p THEN [t EXCEPT !.ident = Ident(named, i)]
                    ELSE FieldReceiver(Ident(named, i), "u8")]

FieldLists(named) ==
    UNION {{FieldList(named, n, 0, U32Field)}
           \cup {FieldList(named, n, p, t) : p \in 1..n, t \in FieldTemplates}
           \cup {FieldList(named, n, p, t) : p \in 2..n, t \in SkipTemplates}
           \cup {FieldList(named, n, pr[1], LateSkip(pr[2])) :
                   pr \in {q \in (1..n) \X (1..n) : q[1] <= q[2]}}
           : n \in 0..MaxFields}

Style(named, fields) == IF fields = <<>> THEN "Unit" ELSE IF named THEN "Struct" ELSE "Tuple"

StructOf(fields) == ContainerReceiver("struct", <<VariantReceiver(NoId, Style(TRUE, fields), fields)>>)

\* struct Inner { #[declio(encode_with = .., decode_with = ..)] y: u32 },
\* a derived type used as the type of a field (as FieldCtx in FieldCtx2).
InnerSchema ==
    StructOf(<<[FieldReceiver("y", "u32") EXCEPT !.encode_with = "narrow", !.decode_with = "narrow"]>>)

StructSchemas ==
    {[StructOf(fl) EXCEPT !.ctx = Single(c), !.ctx_is = ci] :
        fl \in FieldLists(TRUE), c \in {None, "endian"},
        ci \in {Single(None), Single("Little"), Single("Big"), Multi("Little", "Big")}}
    \cup {[StructOf(<<>>) EXCEPT !.id_type = "u8"]}
    \cup {[StructOf(fl) EXCEPT !.ctx = Single("id"), !.id_expr = a] :
            fl \in {<<>>, <<FieldReceiver("x", "u8")>>},
            a \in {Single("id"), Multi("id", None), Multi(None, "id")}}

\* The variants of an enum: all unit, or a unit variant alternating with a
\* tuple variant as in Enum of tests/derive.rs.
TupleFields == Take(<<FieldReceiver(None, "u8"), FieldReceiver(None, "BigEndian<u32>"),
                      FieldReceiver(None, "u8")>>, MaxFields)
VariantFields(shape, i) == IF shape = "mixed" /\ i % 2 = 0 THEN TupleFields ELSE <<>>

\* The literal ids of the variants, in declaration order; two variants may
\* carry the same id.
IdLists ==
    UNION {{ids \in [1..n -> Byte] : \A i \in 1..(n - 1) : ids[i] <= ids[i + 1]} :
           n \in 1..MaxVariants}

EnumOf(ids, shape) ==
    ContainerReceiver("enum",
        [i \in 1..Len(ids) |->
            VariantReceiver(ids[i], Style(FALSE, VariantFields(shape, i)), VariantFields(shape, i))])

\* The ways an enum names its id: id_type (with id_ctx), id_expr over the
\* context, both, and the combinations ContainerReceiver::validate refuses.
EnumTagged(e) ==
    {[e EXCEPT !.id_type = "u8"]}
    \cup {[e EXCEPT !.id_type = "u16", !.id_ctx = a] :
            a \in {Single("Little"), Single("Big"), Multi("Little", "Big")}}
    \cup {[e EXCEPT !.ctx = Single("id"), !.id_expr = a] : a \in {Single("id"), Multi(None, "id")}}
    \cup {[e EXCEPT !.ctx = Single("id"), !.id_expr = Multi("id", None), !.id_type = t] :
            t \in {"u8", None}}

EnumSchemas ==
    UNION {EnumTagged(EnumOf(ids, shape)) : ids \in IdLists, shape \in {"units", "mixed"}}
    \cup {EnumOf(<<0>>, "units"),
          [EnumOf(<<0>>, "units") EXCEPT !.ctx = Single("id"), !.id_expr = Single("id"),
                                         !.id_type = "u8"]}

\* Every schema is one the compiler accepts the generated code of, or one
\* the macros refuse; Decode is derived only where its body compiles too.
Schemas == {r \in StructSchemas \cup EnumSchemas : derive(r).ok => EncodeWellTyped(r)}

\* The values of a schema: a variant and a value per field.
FieldValues(ty) ==
    IF ty = "u8" THEN {0, 1, MaxByte}
    ELSE IF ty \in {"u32", "Inner"} THEN {1, 16909060}
    ELSE {0, 16909060}

FieldsValues(fields) ==
    {fv \in [1..Len(fields) -> {0, 1, MaxByte, 16909060}] :
        \A k \in 1..Len(fields) : fv[k] \in FieldValues(fields[k].ty)}

Values(r) ==
    UNION {{[variant |-> i, fields |-> fv] : fv \in FieldsValues(r.variants[i].fields)} :
           i \in 1..Len(r.variants)}

\* The contexts a caller can pass: of the declared type, or of any type
\* when the body is generic in it.
CallerCtxs(r) ==
    IF r.ctx.encode = "endian" THEN {EndianCtx("Little"), EndianCtx("Big")}
    ELSE IF r.ctx.encode = "id" THEN {IdCtx(i) : i \in Byte}
    ELSE {UnitCtx, EndianCtx("Little")}

\* ------------------------------------------------------ the generated code
\* The value of a context expression in a body called with context c: a
\* literal, or the binding of the caller's context.
EvalCtx(expr, c) ==
    IF expr \in {"Little", "Big"} THEN EndianCtx(expr)
    ELSE IF expr = "()" THEN UnitCtx
    ELSE c

\* The value of an id expression: the u8 the caller's context hands down.
EvalId(expr, c) == c.id

\* A record of one codec call: for whom, by which path, under which context.
Call(who, path, c) == [who |-> who, path |-> path, ctx |-> c]

\* A skip_if that is never taken.
skip_never(fd, refs) == FALSE

\* A skip_if that reads the first field whatever field it names.
skip_first_field(fd, refs) == fd.skip_if.on # 0 /\ refs[1] = fd.skip_if.eq

\* `if #skip_if`: the predicate over the sibling fields bound as refs.
skip(fd, refs) == fd.skip_if.on # 0 /\ refs[fd.skip_if.on] = fd.skip_if.eq

Goto(st, at) == [st EXCEPT !.pc = at.pc, !.k = at.k]
Fail(st, e) == [st EXCEPT !.pc = "err", !.err = e]
AtField(vd, k) == IF k <= Len(vd.fields) THEN [pc |-> "field", k |-> k] ELSE [pc |-> "ok", k |-> 0]

\* -- encode
EncIdle == [pc |-> "idle", k |-> 0, sink |-> <<>>, err |-> NoError, calls |-> <<>>]

EncAtId(cd, vd) ==
    IF cd.id_encoder # None THEN [pc |-> "id_encode", k |-> 0] ELSE AtField(vd, 1)
EncAtCheck(cd, vd) ==
    IF cd.id_check_expr # None THEN [pc |-> "id_check", k |-> 0] ELSE EncAtId(cd, vd)

\* An id check that lets every id through.
id_check_stmt_never_fails(cd, vd, c, e) == Goto(e, EncAtId(cd, vd))

id_check_stmt(cd, vd, c, e) ==
    IF vd.id_expr # EvalId(cd.id_check_expr, c)
    THEN Fail(e, Error_new("id context does not match variant id", 0))
    ELSE Goto(e, EncAtId(cd, vd))

id_encode_stmt(cd, vd, c, e) ==
    LET cx == EvalCtx(cd.id_encode_ctx, c)
        r == TypeEncode(cd.id_encoder, vd.id_expr, cx)
        e1 == [e EXCEPT !.sink = @ \o r.bytes,
                        !.calls = Append(@, Call("id", Path(None, cd.id_encoder), cx))]
    IN  IF r.ok THEN Goto(e1, AtField(vd, 1))
        ELSE Fail(e1, Error_with_context("enum id", "", r.err))

\* encode_expr passing the caller's context to a field without a ctx of
\* its own, whatever the container's ctx_is.
encode_expr_ignores_ctx_is(cd, vd, v, c, e) ==
    LET fd == vd.fields[e.k]
        cx == EvalCtx(actual_ctx(fd.encode_ctx, None, cd.encode_ctx_pat), c)
        r == CallEncode(fd.encoder, v.fields[e.k], cx)
        e1 == [e EXCEPT !.sink = @ \o r.bytes,
                        !.calls = Append(@, Call(fd.public_ref_ident, fd.encoder, cx))]
    IN  IF skip(fd, v.fields) THEN Goto(e, AtField(vd, e.k + 1))
        ELSE IF r.ok THEN Goto(e1, AtField(vd, e.k + 1))
        ELSE Fail(e1, Error_with_context("field", fd.public_ref_ident, r.err))

\* encode_expr writing its field in front of what the writer already holds.
encode_expr_prepends(cd, vd, v, c, e) ==
    LET fd == vd.fields[e.k]
        cx == EvalCtx(actual_ctx(fd.encode_ctx, cd.encode_ctx_is, cd.encode_ctx_pat), c)
        r == CallEncode(fd.encoder, v.fields[e.k], cx)
        e1 == [e EXCEPT !.sink = r.bytes \o @,
                        !.calls = Append(@, Call(fd.public_ref_ident, fd.encoder, cx))]
    IN  IF skip(fd, v.fields) THEN Goto(e, AtField(vd, e.k + 1))
        ELSE IF r.ok THEN Goto(e1, AtField(vd, e.k + 1))
        ELSE Fail(e1, Error_with_context("field", fd.public_ref_ident, r.err))

\* encode_expr through a buffer of its own that is dropped on failure.
encode_expr_drops_partial(cd, vd, v, c, e) ==
    LET fd == vd.fields[e.k]
        cx == EvalCtx(actual_ctx(fd.encode_ctx, cd.encode_ctx_is, cd.encode_ctx_pat), c)
        r == CallEncode(fd.encoder, v.fields[e.k], cx)
        e1 == [e EXCEPT !.sink = IF r.ok THEN @ \o r.bytes ELSE @,
                        !.calls = Append(@, Call(fd.public_ref_ident, fd.encoder, cx))]
    IN  IF skip(fd, v.fields) THEN Goto(e, AtField(vd, e.k + 1))
        ELSE IF r.ok THEN Goto(e1, AtField(vd, e.k + 1))
        ELSE Fail(e1, Error_with_context("field", fd.public_ref_ident, r.err))

encode_expr(cd, vd, v, c, e) ==
    LET fd == vd.fields[e.k]
        cx == EvalCtx(actual_ctx(fd.encode_ctx, cd.encode_ctx_is, cd.encode_ctx_pat), c)
        r == CallEncode(fd.encoder, v.fields[e.k], cx)
        e1 == [e EXCEPT !.sink = @ \o r.bytes,
                        !.calls = Append(@, Call(fd.public_ref_ident, fd.encoder, cx))]
    IN  IF skip(fd, v.fields) THEN Goto(e, AtField(vd, e.k + 1))
        ELSE IF r.ok THEN Goto(e1, AtField(vd, e.k + 1))
        ELSE Fail(e1, Error_with_context("field", fd.public_ref_ident, r.err))

\* One statement of the arm `match self` selects for v.
encode_arm(cd, v, c, e) ==
    LET vd == cd.variants[v.variant]
    IN  IF e.pc = "idle" THEN Goto(e, EncAtCheck(cd, vd))
        ELSE IF e.pc = "id_check" THEN id_check_stmt(cd, vd, c, e)
        ELSE IF e.pc = "id_encode" THEN id_encode_stmt(cd, vd, c, e)
        ELSE IF e.pc = "field" THEN encode_expr(cd, vd, v, c, e)
        ELSE e

\* A whole call of the generated encode, from state e to its return.
RECURSIVE Encode(_, _, _, _)
Encode(cd, v, c, e) ==
    IF e.pc \in {"ok", "err"} THEN e ELSE Encode(cd, v, c, encode_arm(cd, v, c, e))

\* -- encoded_size
\* encoded_size_expr without its `if #skip_if` branch: every field counts.
encoded_size_expr_counts_skipped(cd, vd, k, v, c) ==
    LET fd == vd.fields[k]
        cx == EvalCtx(actual_ctx(fd.encode_ctx, cd.encode_ctx_is, cd.encode_ctx_pat), c)
    IN  [size |-> CallEncodedSize(fd.encoded_size, v.fields[k], cx),
         calls |-> <<Call(fd.public_ref_ident, fd.encoded_size, cx)>>]

encoded_size_expr(cd, vd, k, v, c) ==
    LET fd == vd.fields[k]
        cx == EvalCtx(actual_ctx(fd.encode_ctx, cd.encode_ctx_is, cd.encode_ctx_pat), c)
    IN  IF skip(fd, v.fields) THEN [size |-> 0, calls |-> <<>>]
        ELSE [size |-> CallEncodedSize(fd.encoded_size, v.fields[k], cx),
              calls |-> <<Call(fd.public_ref_ident, fd.encoded_size, cx)>>]

id_encoded_size_stmt(cd, vd, c) ==
    LET cx == EvalCtx(cd.id_encode_ctx, c)
    IN  IF cd.id_encoded_size = None THEN [size |-> 0, calls |-> <<>>]
        ELSE [size |-> TypeEncodedSize(cd.id_encoded_size, vd.id_expr, cx),
              calls |-> <<Call("id", Path(None, cd.id_encoded_size), cx)>>]

encoded_size_arm(cd, v, c) ==
    LET vd == cd.variants[v.variant]
        id == id_encoded_size_stmt(cd, vd, c)
        fs == [k \in 1..Len(vd.fields) |-> encoded_size_expr(cd, vd, k, v, c)]
    IN  [pc |-> "done",
         size |-> id.size + Sum([k \in 1..Len(fs) |-> fs[k].size]),
         calls |-> id.calls \o Concat([k \in 1..Len(fs) |-> fs[k].calls])]

SizeIdle == [pc |-> "idle", size |-> 0, calls |-> <<>>]

\* -- decode
DecIdle ==
    [pc |-> "idle", k |-> 0, input |-> <<>>, trail |-> 0, rest |-> <<>>,
     id |-> NoId, arm |-> 0, owned |-> <<>>, err |-> NoError, calls |-> <<>>,
     out |-> [state |-> "none", err |-> NoError]]

\* The scrutinee of the generated match: the id decoded from the reader, or
\* the id expression (`()` for a struct).
\* id_decode taking a byte off the reader for an id it computes.
id_decode_reads_computed(cd, c, d) ==
    LET cx == EvalCtx(cd.id_decode_ctx, c)
        r == TypeDecode(cd.id_decoder, cx, d.rest)
        d1 == [d EXCEPT !.rest = r.rest,
                        !.calls = Append(@, Call("id", Path(None, cd.id_decoder), cx))]
    IN  IF cd.id_decoder = None
        THEN [d EXCEPT !.pc = "match",
                       !.rest = Drop(@, 1),
                       !.id = IF cd.id_decode_expr = "()" THEN NoId
                              ELSE EvalId(cd.id_decode_expr, c)]
        ELSE IF r.ok THEN [d1 EXCEPT !.pc = "match", !.id = r.val]
        ELSE Fail(d1, Error_with_context("enum id", "", r.err))

\* id_decode reading the id without advancing the reader.
id_decode_peeks(cd, c, d) ==
    LET cx == EvalCtx(cd.id_decode_ctx, c)
        r == TypeDecode(cd.id_decoder, cx, d.rest)
        d1 == [d EXCEPT !.calls = Append(@, Call("id", Path(None, cd.id_decoder), cx))]
    IN  IF cd.id_decoder = None
        THEN [d EXCEPT !.pc = "match",
                       !.id = IF cd.id_decode_expr = "()" THEN NoId
                              ELSE EvalId(cd.id_decode_expr, c)]
        ELSE IF r.ok THEN [d1 EXCEPT !.pc = "match", !.id = r.val]
        ELSE Fail(d1, Error_with_context("enum id", "", r.err))

id_decode(cd, c, d) ==
    LET cx == EvalCtx(cd.id_decode_ctx, c)
        r == TypeDecode(cd.id_decoder, cx, d.rest)
        d1 == [d EXCEPT !.rest = r.rest,
                        !.calls = Append(@, Call("id", Path(None, cd.id_decoder), cx))]
    IN  IF cd.id_decoder = None
        THEN [d EXCEPT !.pc = "match",
                       !.id = IF cd.id_decode_expr = "()" THEN NoId
                              ELSE EvalId(cd.id_decode_expr, c)]
        ELSE IF r.ok THEN [d1 EXCEPT !.pc = "match", !.id = r.val]
        ELSE Fail(d1, Error_with_context("enum id", "", r.err))

Matches(id_pat, id) == id_pat.wild \/ id = id_pat.id

\* decode_match whose last arm falls back to the first variant.
decode_match_falls_back(cd, d) ==
    LET hits == {i \in 1..Len(cd.variants) : Matches(cd.variants[i].id_pat, d.id)}
        first == CHOOSE i \in hits : \A j \in hits : i <= j
    IN  IF hits = {} THEN Goto([d EXCEPT !.arm = 1], AtField(cd.variants[1], 1))
        ELSE Goto([d EXCEPT !.arm = first], AtField(cd.variants[first], 1))

\* decode_match taking the last of the arms that match.
decode_match_last(cd, d) ==
    LET hits == {i \in 1..Len(cd.variants) : Matches(cd.variants[i].id_pat, d.id)}
        last == CHOOSE i \in hits : \A j \in hits : i >= j
    IN  IF hits = {} THEN Fail(d, Error_new("unknown id value", d.id))
        ELSE Goto([d EXCEPT !.arm = last], AtField(cd.variants[last], 1))

\* The arms are tried in declaration order; the last arm is `other => Err`.
decode_match(cd, d) ==
    LET hits == {i \in 1..Len(cd.variants) : Matches(cd.variants[i].id_pat, d.id)}
        first == CHOOSE i \in hits : \A j \in hits : i <= j
    IN  IF hits = {} THEN Fail(d, Error_new("unknown id value", d.id))
        ELSE Goto([d EXCEPT !.arm = first], AtField(cd.variants[first], 1))

\* decode_expr without its `if #skip_if` branch: every field is read.
decode_expr_reads_skipped(cd, c, d) ==
    LET vd == cd.variants[d.arm]
        fd == vd.fields[d.k]
        cx == EvalCtx(actual_ctx(fd.decode_ctx, cd.decode_ctx_is, cd.decode_ctx_pat), c)
        r == CallDecode(fd.decoder, cx, d.rest)
        d1 == [d EXCEPT !.rest = r.rest,
                        !.calls = Append(@, Call(fd.public_ref_ident, fd.decoder, cx))]
    IN  IF r.ok THEN Goto([d1 EXCEPT !.owned = Append(@, r.val)], AtField(vd, d.k + 1))
        ELSE Fail(d1, Error_with_context("field", fd.public_ref_ident, r.err))

\* decode_expr that binds the default of a field whose decoder failed.
decode_expr_defaults_on_error(cd, c, d) ==
    LET vd == cd.variants[d.arm]
        fd == vd.fields[d.k]
        cx == EvalCtx(actual_ctx(fd.decode_ctx, cd.decode_ctx_is, cd.decode_ctx_pat), c)
        r == CallDecode(fd.decoder, cx, d.rest)
        d1 == [d EXCEPT !.rest = r.rest,
                        !.calls = Append(@, Call(fd.public_ref_ident, fd.decoder, cx))]
    IN  IF skip(fd, d.owned)
        THEN Goto([d EXCEPT !.owned = Append(@, Default(fd.ty))], AtField(vd, d.k + 1))
        ELSE IF r.ok THEN Goto([d1 EXCEPT !.owned = Append(@, r.val)], AtField(vd, d.k + 1))
        ELSE Goto([d1 EXCEPT !.owned = Append(@, Default(fd.ty))], AtField(vd, d.k + 1))

\* decode_expr that seeks back to the start of the source after a field.
decode_expr_rewinds(cd, c, d) ==
    LET vd == cd.variants[d.arm]
        fd == vd.fields[d.k]
        cx == EvalCtx(actual_ctx(fd.decode_ctx, cd.decode_ctx_is, cd.decode_ctx_pat), c)
        r == CallDecode(fd.decoder, cx, d.rest)
        d1 == [d EXCEPT !.rest = d.input,
                        !.calls = Append(@, Call(fd.public_ref_ident, fd.decoder, cx))]
    IN  IF skip(fd, d.owned)
        THEN Goto([d EXCEPT !.owned = Append(@, Default(fd.ty))], AtField(vd, d.k + 1))
        ELSE IF r.ok THEN Goto([d1 EXCEPT !.owned = Append(@, r.val)], AtField(vd, d.k + 1))
        ELSE Fail(d1, Error_with_context("field", fd.public_ref_ident, r.err))

decode_expr(cd, c, d) ==
    LET vd == cd.variants[d.arm]
        fd == vd.fields[d.k]
        cx == EvalCtx(actual_ctx(fd.decode_ctx, cd.decode_ctx_is, cd.decode_ctx_pat), c)
        r == CallDecode(fd.decoder, cx, d.rest)
        d1 == [d EXCEPT !.rest = r.rest,
                        !.calls = Append(@, Call(fd.public_ref_ident, fd.decoder, cx))]
    IN  IF skip(fd, d.owned)
        THEN Goto([d EXCEPT !.owned = Append(@, Default(fd.ty))], AtField(vd, d.k + 1))
        ELSE IF r.ok THEN Goto([d1 EXCEPT !.owned = Append(@, r.val)], AtField(vd, d.k + 1))
        ELSE Fail(d1, Error_with_context("field", fd.public_ref_ident, r.err))

\* One step of the generated decode.
decode_arm(cd, c, d) ==
    IF d.pc = "id" THEN id_decode(cd, c, d)
    ELSE IF d.pc = "match" THEN decode_match(cd, d)
    ELSE IF d.pc = "field" THEN decode_expr(cd, c, d)
    ELSE d

\* A whole call of the generated decode, from state d to its return.
RECURSIVE Decode(_, _, _)
Decode(cd, c, d) ==
    IF d.pc \in {"ok", "err"} THEN d ELSE Decode(cd, c, decode_arm(cd, c, d))

\* The value a decode that reached Ok returns.
Decoded(d) == [variant |-> d.arm, fields |-> d.owned]

\* from_bytes_with_context: T::decode on a reader over the whole buffer (the
\* steps above), then the check that nothing is left in it.
from_bytes_return(d) ==
    IF d.pc = "err" THEN [state |-> "err", err |-> d.err]
    ELSE IF d.rest # <<>> THEN [state |-> "err", err |-> RemainingBytes(Len(d.rest))]
    ELSE [state |-> "ok", err |-> NoError]

\* The buffers handed to from_bytes_with_context: what encode wrote followed
\* by filler bytes, with its first byte replaced, or cut short.
DecodeInputs(sink) ==
    {[input |-> sink \o Fill(MaxByte, n), trail |-> n] : n \in 0..MaxTrail}
    \cup {[input |-> <<b>> \o Tail(sink), trail |-> 0] : b \in IF sink = <<>> THEN {} ELSE Byte}
    \cup {[input |-> Take(sink, m), trail |-> 0] : m \in {0, Len(sink) - 1} \ {0 - 1}}

\* ------------------------------------------------------------------- state
VARIABLES
    schema,   \* the type definition handed to the derive macros
    gen,      \* "pending", then "generated" or "rejected"
    value,    \* the value encode and encoded_size are called on
    ctx,      \* the context the caller passes to all three capabilities
    enc,      \* the running call of encode: position, sink, calls made
    size,     \* the call of encoded_size
    dec,      \* the running call of decode: position, source, fields bound
    enc2,     \* a second call of encode, on the same value with a sink of its own
    held,     \* an error a caller holds, and how far it has followed source()
    util      \* an adapter of util.rs or a magic_bytes! type called on its own

vars == <<schema, gen, value, ctx, enc, size, dec, enc2, held, util>>

Data == validate(schema).data

Holding(e) == [err |-> e, at |-> e, steps |-> 0]

\* A call of an adapter on its own: the adapter, the value and context
\* it is called with, and the results of the calls made so far.
UtilCall(cd, v, c) ==
    [cd |-> cd, val |-> v, ctx |-> c,
     encoded |-> FALSE, room |-> 0, out |-> EncOk(<<>>),
     sized |-> FALSE, size |-> 0,
     decoded |-> FALSE, input |-> <<>>, dec |-> DecErr(<<>>, NoError)]
Adapter(kind, P, A) == [kind |-> kind, P |-> P, A |-> A]
UtilIdle == UtilCall(Adapter("-", "-", "-"), 0, UnitCtx)

Init ==
    /\ schema \in Schemas
    /\ gen = "pending"
    /\ value \in Values(schema)
    /\ ctx \in CallerCtxs(schema)
    /\ enc = EncIdle
    /\ size = SizeIdle
    /\ dec = DecIdle
    /\ enc2 = EncIdle
    /\ held = Holding(NoError)
    /\ util = UtilIdle

\* derive_encode / derive_decode / derive_encoded_size: validate, then
\* generate or report the errors.
Derive ==
    /\ gen = "pending"
    /\ gen' = IF derive(schema).ok THEN "generated" ELSE "rejected"
    /\ UNCHANGED <<schema, value, ctx, enc, size, dec, enc2, held, util>>

EncodeCall ==
    /\ gen = "generated" /\ enc.pc = "idle"
    /\ enc' = encode_arm(Data, value, ctx, enc)
    /\ UNCHANGED <<schema, gen, value, ctx, size, dec, enc2, held, util>>

EncodeIdCheck ==
    /\ enc.pc = "id_check"
    /\ enc' = encode_arm(Data, value, ctx, enc)
    /\ UNCHANGED <<schema, gen, value, ctx, size, dec, enc2, held, util>>

EncodeId ==
    /\ enc.pc = "id_encode"
    /\ enc' = encode_arm(Data, value, ctx, enc)
    /\ UNCHANGED <<schema, gen, value, ctx, size, dec, enc2, held, util>>

\* encode writing its fields through a buffer shared by all calls.
EncodeField_shared_buffer ==
    /\ enc.pc = "field"
    /\ enc' = encode_arm(Data, value, ctx,
                         [enc EXCEPT !.sink = IF Len(enc2.sink) > Len(@) THEN enc2.sink ELSE @])
    /\ UNCHANGED <<schema, gen, value, ctx, size, dec, enc2, held, util>>

EncodeField ==
    /\ enc.pc = "field"
    /\ enc' = encode_arm(Data, value, ctx, enc)
    /\ UNCHANGED <<schema, gen, value, ctx, size, dec, enc2, held, util>>

EncodedSizeCall ==
    /\ gen = "generated" /\ size.pc = "idle" /\ dec.pc = "idle"
    /\ size' = encoded_size_arm(Data, value, ctx)
    /\ UNCHANGED <<schema, gen, value, ctx, enc, dec, enc2, held, util>>

DecodeCall ==
    /\ gen = "generated" /\ dec.pc = "idle"
    /\ enc.pc \in {"ok", "err"} /\ size.pc = "done"
    /\ WellTyped(schema)
    /\ \E i \in DecodeInputs(enc.sink) :
          dec' = [dec EXCEPT !.pc = "id", !.input = i.input, !.trail = i.trail,
                             !.rest = i.input, !.out = [state |-> "pending", err |-> NoError]]
    /\ UNCHANGED <<schema, gen, value, ctx, enc, size, enc2, held, util>>

DecodeId ==
    /\ dec.pc = "id"
    /\ dec' = decode_arm(Data, ctx, dec)
    /\ UNCHANGED <<schema, gen, value, ctx, enc, size, enc2, held, util>>

DecodeMatch ==
    /\ dec.pc = "match"
    /\ dec' = decode_arm(Data, ctx, dec)
    /\ UNCHANGED <<schema, gen, value, ctx, enc, size, enc2, held, util>>

DecodeField ==
    /\ dec.pc = "field"
    /\ dec' = decode_arm(Data, ctx, dec)
    /\ UNCHANGED <<schema, gen, value, ctx, enc, size, enc2, held, util>>

FromBytesReturn ==
    /\ dec.pc \in {"ok", "err"} /\ dec.out.state = "pending"
    /\ dec' = [dec EXCEPT !.out = from_bytes_return(dec)]
    /\ UNCHANGED <<schema, gen, value, ctx, enc, size, enc2, held, util>>

Next ==
    \/ Derive
    \/ EncodeCall \/ EncodeIdCheck \/ EncodeId \/ EncodeField
    \/ EncodedSizeCall
    \/ DecodeCall \/ DecodeId \/ DecodeMatch \/ DecodeField \/ FromBytesReturn

Spec == Init /\ [][Next]_vars

\* Callers on several threads: the generated functions take &self, the
\* context by value and the caller's own writer or reader, so calls run
\* side by side, each on its own sink or source.
Encode2Step ==
    /\ gen = "generated" /\ enc2.pc \notin {"ok", "err"}
    /\ enc2' = encode_arm(Data, value, ctx, enc2)
    /\ UNCHANGED <<schema, gen, value, ctx, enc, size, dec, held, util>>

ConcurrentEncodedSize ==
    /\ gen = "generated" /\ size.pc = "idle"
    /\ size' = encoded_size_arm(Data, value, ctx)
    /\ UNCHANGED <<schema, gen, value, ctx, enc, dec, enc2, held, util>>

\* The sources of the concurrent decodes: the bytes of the value, whole or
\* cut short by one.
ConcurrentInputs ==
    LET sink == Encode(Data, value, ctx, EncIdle).sink
    IN  {sink} \cup (IF sink = <<>> THEN {} ELSE {Take(sink, Len(sink) - 1)})

ConcurrentDecode ==
    /\ gen = "generated" /\ dec.pc = "idle"
    /\ WellTyped(schema)
    /\ \E i \in ConcurrentInputs :
          dec' = [dec EXCEPT !.pc = "id", !.input = i, !.rest = i,
                             !.out = [state |-> "pending", err |-> NoError]]
    /\ UNCHANGED <<schema, gen, value, ctx, enc, size, enc2, held, util>>

ConcurrentNext ==
    \/ Derive
    \/ EncodeCall \/ EncodeIdCheck \/ EncodeId \/ EncodeField
    \/ Encode2Step
    \/ ConcurrentEncodedSize
    \/ ConcurrentDecode \/ DecodeId \/ DecodeMatch \/ DecodeField

\* The types the concurrent callers use: the unions whose variants carry
\* ids of their own and whose id has one context, and the records that take
\* the caller's byte order as their context.
ConcurrentInit ==
    /\ Init
    /\ schema.kind = "struct" => (schema.ctx = Single("endian") /\ schema.ctx_is = Single(None))
    /\ schema.kind = "enum" =>
          /\ schema.id_ctx.encode = schema.id_ctx.decode
          /\ \A i, j \in 1..Len(schema.variants) :
                i # j => schema.variants[i].id # schema.variants[j].id

ConcurrentSpec == ConcurrentInit /\ [][ConcurrentNext]_vars

\* Error values as a caller may build and inspect them: an error that
\* wraps nothing or an error of the standard library, wrapped by
\* Error::wrap and Error::with_context, then followed through source().
ErrorInit ==
    /\ schema = StructOf(<<>>) /\ gen = "pending"
    /\ value = [variant |-> 1, fields |-> <<>>] /\ ctx = UnitCtx
    /\ enc = EncIdle /\ size = SizeIdle /\ dec = DecIdle /\ enc2 = EncIdle
    /\ held \in {Holding(e) : e \in {Error_new("unknown id value", 1), RemainingBytes(1),
                                      UnexpectedLength(2, 1), Std("UnexpectedEof"),
                                      Std("TryFromIntError")}}
    /\ util = UtilIdle

Wrap ==
    /\ held.steps = 0 /\ held.err[1].kind = "Std"
    /\ held' = Holding(Error_wrap(held.err[1].label))
    /\ UNCHANGED <<schema, gen, value, ctx, enc, size, dec, enc2, util>>

WithContext ==
    /\ held.steps = 0 /\ held.err[1].kind # "Std"
    /\ Cardinality({i \in 1..Len(held.err) : held.err[i].kind \in {"TagError", "FieldError"}})
          < MaxWrap
    /\ \E what \in {"enum id", "field"}, field \in {"x", "field_0"} :
          held' = Holding(Error_with_context(what, field, held.err))
    /\ UNCHANGED <<schema, gen, value, ctx, enc, size, dec, enc2, util>>

Source ==
    /\ held.at[1].kind # "Std" /\ source(held.at) # NoSource
    /\ held' = [held EXCEPT !.at = source(held.at), !.steps = @ + 1]
    /\ UNCHANGED <<schema, gen, value, ctx, enc, size, dec, enc2, util>>

ErrorNext == Wrap \/ WithContext \/ Source

ErrorSpec == ErrorInit /\ [][ErrorNext]_vars

\* ------------------------------------------------ the adapters on their own
\* The adapters and the values, contexts and writers they are called with.
Adapters ==
    {Adapter(k, "-", "-") : k \in {"zero_one", "ZeroOne", "utf8"}}
    \cup {Adapter("magic_bytes", "-", n) : n \in {"Foo", "Bar"}}
    \cup {Adapter("Bytes", P, "u8") : P \in {"u8", "i8", "u16"}}
    \cup {Adapter("PrefixVec", P, A) : P \in {"u8", "i8"}, A \in {"u8", "u16"}}

PayloadLens == {0, 1, 2, 127, 128, MaxPayload - 1, MaxPayload}
Strings == {<<>>, <<72, 105>>, <<195, 169>>, <<226, 130, 172>>}
UtilValues(cd) ==
    IF cd.kind \in {"zero_one", "ZeroOne"} THEN BOOLEAN
    ELSE IF cd.kind = "utf8" THEN Strings
    ELSE IF cd.kind = "magic_bytes" THEN {cd.A}
    ELSE {Fill(b, n) : b \in {1, IF cd.A = "u8" THEN 200 ELSE 300}, n \in PayloadLens}
UtilCtxs(cd) ==
    IF cd.kind \in {"zero_one", "magic_bytes"} THEN {UnitCtx, EndianCtx("Big"), IdCtx(1)}
    ELSE IF cd.kind \in {"ZeroOne", "utf8"} THEN {UnitCtx}
    ELSE {EndianCtx("Little"), EndianCtx("Big")}
Rooms == {0, 1, 2, 3, Unbounded}

\* The three capabilities of an adapter.
util_encode(cd, v, c, room) ==
    IF cd.kind = "zero_one" THEN zero_one_encode(v, c, room)
    ELSE IF cd.kind = "ZeroOne" THEN ZeroOne_encode(v, c, room)
    ELSE IF cd.kind = "utf8" THEN utf8_encode(v, c, room)
    ELSE IF cd.kind = "magic_bytes" THEN magic_encode(cd.A, c, room)
    ELSE IF cd.kind = "Bytes" THEN Bytes_encode(cd.P, v, c, room)
    ELSE PrefixVec_encode(cd.P, cd.A, v, c, room)
util_decode(cd, v, c, src) ==
    IF cd.kind = "zero_one" THEN zero_one_decode(c, src)
    ELSE IF cd.kind = "ZeroOne" THEN ZeroOne_decode(c, src)
    ELSE IF cd.kind = "utf8" THEN utf8_decode(Len(v), src)
    ELSE IF cd.kind = "magic_bytes" THEN magic_decode(cd.A, c, src)
    ELSE IF cd.kind = "Bytes" THEN Bytes_decode(cd.P, c, src)
    ELSE PrefixVec_decode(cd.P, cd.A, c, src)
util_encoded_size(cd, v, c) ==
    IF cd.kind = "zero_one" THEN zero_one_encoded_size(v, c)
    ELSE IF cd.kind = "ZeroOne" THEN ZeroOne_encoded_size(v, c)
    ELSE IF cd.kind = "utf8" THEN Len(v)
    ELSE IF cd.kind = "magic_bytes" THEN magic_encoded_size(cd.A, c)
    ELSE IF cd.kind = "Bytes" THEN Bytes_encoded_size(cd.P, v, c)
    ELSE PrefixVec_encoded_size(cd.P, cd.A, v, c)

\* The sources decode is called on: what encode wrote, with bytes after
\* it, cut short, with a byte overwritten, and a few sources of their own.
Corrupt(bs, i) == [bs EXCEPT ![i] = 255]
UtilInputs(cd, v, c) ==
    LET e == util_encode(cd, v, c, Unbounded)
        n == Len(e.bytes)
    IN  {<<>>, <<2>>, <<0, 9>>, <<1, 9>>, <<255, 1>>, <<195, 40>>, <<2, 0, 5, 6, 7>>,
         MagicBytes("Foo"), MagicBytes("Bar")}
        \cup (IF e.ok THEN {e.bytes, e.bytes \o <<7>>} ELSE {})
        \cup (IF e.ok /\ n > 0 THEN {Take(e.bytes, n - 1), Corrupt(e.bytes, 1), Corrupt(e.bytes, n)}
              ELSE {})

UtilInit ==
    /\ schema = StructOf(<<>>) /\ gen = "pending"
    /\ value = [variant |-> 1, fields |-> <<>>] /\ ctx = UnitCtx
    /\ enc = EncIdle /\ size = SizeIdle /\ dec = DecIdle /\ enc2 = EncIdle
    /\ held = Holding(NoError)
    /\ \E cd \in Adapters : \E v \in UtilValues(cd) : \E c \in UtilCtxs(cd) :
          util = UtilCall(cd, v, c)

UtilEncode ==
    /\ ~util.encoded
    /\ \E room \in Rooms :
          util' = [util EXCEPT !.encoded = TRUE, !.room = room,
                               !.out = util_encode(util.cd, util.val, util.ctx, room)]
    /\ UNCHANGED <<schema, gen, value, ctx, enc, size, dec, enc2, held>>

UtilEncodedSize ==
    /\ ~util.sized
    /\ util' = [util EXCEPT !.sized = TRUE,
                            !.size = util_encoded_size(util.cd, util.val, util.ctx)]
    /\ UNCHANGED <<schema, gen, value, ctx, enc, size, dec, enc2, held>>

UtilDecode ==
    /\ ~util.decoded
    /\ \E src \in UtilInputs(util.cd, util.val, util.ctx) :
          util' = [util EXCEPT !.decoded = TRUE, !.input = src,
                               !.dec = util_decode(util.cd, util.val, util.ctx, src)]
    /\ UNCHANGED <<schema, gen, value, ctx, enc, size, dec, enc2, held>>

UtilNext == UtilEncode \/ UtilEncodedSize \/ UtilDecode

UtilSpec == UtilInit /\ [][UtilNext]_vars

\* ------------------------------------------------------------------ claims
Generated == gen = "generated"
EncReturned == enc.pc \in {"ok", "err"}
DecReturned == dec.pc \in {"ok", "err"}

\* The declaration of the variant of `value`, and of its fields.
Variant == schema.variants[value.variant]
FieldDecl(k) == Variant.fields[k]
NumFields == Len(Variant.fields)

\* The context a field declaration asks for on one side, read off the
\* attributes: the field's own ctx, else the container's ctx_is, else the
\* caller's context.
ExpectedCtx(f, side) ==
    IF f.ctx[side] # None THEN EvalCtx(f.ctx[side], ctx)
    ELSE IF schema.ctx_is[side] # None THEN EvalCtx(schema.ctx_is[side], ctx)
    ELSE ctx

\* Field k is left out of the wire form of `value`.
Skipped(k) ==
    FieldDecl(k).skip_if.on # 0 /\ value.fields[FieldDecl(k).skip_if.on] = FieldDecl(k).skip_if.eq

\* The tag of the enum is computed from the caller's context.
ComputedTag == schema.kind = "enum" /\ schema.id_type = None

\* The caller's context matches the value: a computed tag is the tag of the
\* value's variant.
MatchingCtx == ComputedTag => ctx.id = Variant.id

\* No earlier variant carries the literal tag of the value's variant.
FirstWithTag == \A j \in 1..(value.variant - 1) : schema.variants[j].id # Variant.id

\* The schema declares for decode what it declares for encode: the same
\* hook and the same effective context for every field, the same id context.
SameBothSides ==
    /\ \A k \in 1..NumFields :
          /\ FieldDecl(k).encode_with = FieldDecl(k).decode_with
          /\ ExpectedCtx(FieldDecl(k), "encode") = ExpectedCtx(FieldDecl(k), "decode")
    /\ schema.id_ctx.encode = schema.id_ctx.decode

\* Every skipped field of the value holds its type's default.
SkippedHoldDefault == \A k \in 1..NumFields : Skipped(k) => value.fields[k] = Default(FieldDecl(k).ty)

\* No field has a separate encode hook (which encoded_size knows nothing
\* of), nor is of a type, Inner, one of whose fields has.
NoEncodeHook ==
    \A k \in 1..NumFields : FieldDecl(k).encode_with = None /\ FieldDecl(k).ty # "Inner"

\* decode was handed what encode wrote, followed by dec.trail filler bytes.
DecodedOwnBytes ==
    /\ Generated /\ enc.pc = "ok" /\ DecReturned
    /\ dec.input = enc.sink \o Fill(MaxByte, dec.trail)

Consumed == Len(dec.input) - Len(dec.rest)

\* C1 (as amended): round trip.  For a value whose skipped fields hold their
\* defaults, of a variant whose literal tag no earlier variant carries, under
\* a schema that declares the same hooks and contexts for both sides and a
\* context that matches the value, decoding what encode wrote returns the
\* value and consumes exactly the bytes written (leaving any byte after
\* them), which are encoded_size many when no field has an encode hook.
C1_RoundTrip ==
    (DecodedOwnBytes /\ MatchingCtx /\ FirstWithTag /\ SameBothSides /\ SkippedHoldDefault)
    => /\ dec.pc = "ok"
       /\ Decoded(dec) = value
       /\ dec.rest = Fill(MaxByte, dec.trail)
       /\ NoEncodeHook => Consumed = size.size

\* C1, witness: an enum value with fields and a struct value with a skipped
\* field have been encoded and decoded back.
C1_Witness ==
    /\ DecodedOwnBytes /\ MatchingCtx /\ FirstWithTag /\ SameBothSides /\ SkippedHoldDefault
    /\ dec.pc = "ok" /\ NumFields = MaxFields
    /\ schema.kind = "enum" \/ Skipped(NumFields)

\* C1 (as claimed): every value under every matching context decodes back
\* to itself from exactly encoded_size bytes.
C1_RoundTripEveryValue ==
    (DecodedOwnBytes /\ MatchingCtx /\ dec.trail = 0)
    => /\ dec.pc = "ok"
       /\ Decoded(dec) = value
       /\ Consumed = size.size

\* C2 (as amended): size fidelity.  When encode succeeds and no field has a
\* separate encode hook, encoded_size is the number of bytes encode wrote; a
\* schema with no id_type and no field has size 0.
C2_SizeFidelity ==
    (Generated /\ enc.pc = "ok" /\ size.pc = "done" /\ NoEncodeHook)
    => /\ size.size = Len(enc.sink)
       /\ (schema.id_type = None /\ NumFields = 0) => size.size = 0

\* C2, witness: an enum with an id_type and a struct with a skipped field
\* have been encoded and sized.
C2_Witness ==
    /\ Generated /\ enc.pc = "ok" /\ size.pc = "done" /\ NoEncodeHook
    /\ NumFields = MaxFields /\ size.size > 0
    /\ schema.id_type = "u16" \/ Skipped(NumFields)

\* C2 (as claimed): whenever encode succeeds, encoded_size is the number of
\* bytes it wrote.
C2_SizeFidelityEveryType ==
    (Generated /\ enc.pc = "ok" /\ size.pc = "done") => size.size = Len(enc.sink)

\* The fields of the value that are not skipped, in declaration order.
Written == SelectSeq([k \in 1..NumFields |-> k], LAMBDA k : ~Skipped(k))

\* The name the generated body binds field k to.
FieldName(k) == public_ref_ident(FieldDecl(k).ident, k - 1)
FieldNamed(who) == CHOOSE k \in 1..NumFields : FieldName(k) = who

\* What the codec of one logged call of encode produced.
BytesOf(call) ==
    IF call.who = "id" THEN TypeEncode(schema.id_type, Variant.id, call.ctx).bytes
    ELSE CallEncode(call.path, value.fields[FieldNamed(call.who)], call.ctx).bytes

\* C3: wire layout.  What a generated encode that succeeded wrote is the
\* encoding of the variant's literal id by the id_type under the id context
\* (only when an id_type is declared), followed by the encodings of the
\* fields that are not skipped, in declaration order, and nothing else; a
\* struct without fields writes nothing.
C3_WireLayout ==
    (Generated /\ enc.pc = "ok")
    => /\ [i \in 1..Len(enc.calls) |-> enc.calls[i].who]
              = (IF schema.id_type # None THEN <<"id">> ELSE <<>>)
                \o [i \in 1..Len(Written) |-> FieldName(Written[i])]
       /\ enc.sink = Concat([i \in 1..Len(enc.calls) |-> BytesOf(enc.calls[i])])
       /\ schema.id_type # None =>
              enc.calls[1].ctx = EvalCtx(parse_id_ctx(schema.id_ctx.encode), ctx)
       /\ (schema.kind = "struct" /\ NumFields = 0) => enc.sink = <<>>

\* C3, witness: an enum with a two-byte id has written a variant with
\* fields, and a struct with a multi-byte field has been written.
C3_Witness ==
    /\ Generated /\ enc.pc = "ok" /\ NumFields = MaxFields
    /\ Len(enc.sink) > NumFields + 2
    /\ schema.kind = "enum" => schema.id_type = "u16"

VariantIds == {schema.variants[i].id : i \in 1..Len(schema.variants)}

\* decode has obtained the id: it is past its id step without failing there.
IdObtained == dec.pc \in {"match", "field", "ok"} \/ (dec.pc = "err" /\ dec.id # NoId)

\* C5: tag mismatch.  When the id an enum's decode obtained is the literal
\* id of no variant, decode fails with the custom error `unknown id value`
\* carrying that id, having called the codec of no field.
C5_TagMismatch ==
    (Generated /\ schema.kind = "enum" /\ IdObtained /\ dec.id \notin VariantIds
        /\ dec.pc # "match")
    => /\ dec.pc = "err"
       /\ dec.err = Custom("unknown id value", dec.id)
       /\ dec.arm = 0 /\ dec.owned = <<>>
       /\ \A i \in 1..Len(dec.calls) : dec.calls[i].who = "id"

\* C5, witness: a decoded id and a computed id that match no variant of an
\* enum with fields have been refused.
C5_Witness ==
    /\ Generated /\ schema.kind = "enum" /\ dec.pc = "err" /\ dec.id # NoId
    /\ dec.id \notin VariantIds
    /\ \E i \in 1..Len(schema.variants) : schema.variants[i].fields # <<>>
    /\ Len(dec.rest) > 0

\* The schema with every skip_if taken off its fields.
Unskipped(r) ==
    [r EXCEPT !.variants =
        [i \in 1..Len(r.variants) |->
            [r.variants[i] EXCEPT !.fields =
                [k \in 1..Len(r.variants[i].fields) |->
                    [r.variants[i].fields[k] EXCEPT !.skip_if = NoSkip]]]]]
UnskippedData == validate(Unskipped(schema)).data

\* The field decode is at, and its skip predicate over the fields decoded
\* so far.
DecField == schema.variants[dec.arm].fields[dec.k]
DecSkipped == DecField.skip_if.on # 0 /\ dec.owned[DecField.skip_if.on] = DecField.skip_if.eq

\* The step of encode at a field: skipped, it leaves the writer and the
\* calls alone and moves on; else it is the step of the unskipped schema.
C6_EncodeStep ==
    (enc.pc = "field" /\ enc' # enc)
    => IF Skipped(enc.k)
       THEN /\ enc'.sink = enc.sink /\ enc'.calls = enc.calls
            /\ enc'.pc \in {"field", "ok"} /\ enc'.k \in {0, enc.k + 1}
       ELSE enc' = encode_arm(UnskippedData, value, ctx, enc)

\* The step of decode at a field: skipped, it binds the default, leaves the
\* reader and the calls alone and moves on; else it is the step of the
\* unskipped schema.
C6_DecodeStep ==
    (dec.pc = "field" /\ dec' # dec)
    => IF DecSkipped
       THEN /\ dec'.owned = Append(dec.owned, Default(DecField.ty))
            /\ dec'.rest = dec.rest /\ dec'.calls = dec.calls
            /\ dec'.pc \in {"field", "ok"} /\ dec'.k \in {0, dec.k + 1}
       ELSE dec' = decode_arm(UnskippedData, ctx, dec)

\* encoded_size calls the size function of no skipped field and counts
\* nothing for it; with no field skipped it is that of the unskipped schema.
C6_Size ==
    (Generated /\ size.pc = "done")
    => /\ \A k \in 1..NumFields :
              Skipped(k) => \A i \in 1..Len(size.calls) : size.calls[i].who # FieldName(k)
       /\ size.size = Sum([i \in 1..Len(size.calls) |->
              IF size.calls[i].who = "id" THEN Width(schema.id_type)
              ELSE CallEncodedSize(size.calls[i].path,
                                   value.fields[FieldNamed(size.calls[i].who)],
                                   size.calls[i].ctx)])
       /\ (\A k \in 1..NumFields : ~Skipped(k)) => size = encoded_size_arm(UnskippedData, value, ctx)

\* C6: skip symmetry.  For a field whose skip_if is true, encode writes
\* nothing and calls no codec whatever the field holds, decode binds the
\* type's default without reading, and encoded_size counts 0; for a field
\* whose skip_if is false all three do what they do without a skip_if.
C6_SkipSymmetry == [][C6_EncodeStep /\ C6_DecodeStep]_vars /\ []C6_Size

\* C6, witness: a field holding a value other than its default was skipped
\* by encode and by encoded_size, and decode bound the default in its place.
C6_Witness ==
    /\ Generated /\ enc.pc = "ok" /\ size.pc = "done" /\ dec.pc = "ok"
    /\ NumFields > 0 /\ Skipped(NumFields)
    /\ value.fields[NumFields] # Default(FieldDecl(NumFields).ty)
    /\ dec.arm = value.variant /\ dec.owned[NumFields] = Default(FieldDecl(NumFields).ty)

\* The declaration of the field a logged call of decode was made for.
DecFieldOf(who) ==
    LET fs == schema.variants[dec.arm].fields
    IN  fs[CHOOSE k \in 1..Len(fs) : public_ref_ident(fs[k].ident, k - 1) = who]

\* C7: per-field context precedence.  In encode, decode and encoded_size
\* the context passed to a field's codec is the field's own ctx if it has
\* one, else the container's ctx_is if declared, else the context the
\* caller passed; encoded_size reads the encode side of both attributes.
C7_ContextPrecedence ==
    Generated
    => /\ \A i \in 1..Len(enc.calls) :
              enc.calls[i].who # "id" =>
                  enc.calls[i].ctx = ExpectedCtx(FieldDecl(FieldNamed(enc.calls[i].who)), "encode")
       /\ \A i \in 1..Len(size.calls) :
              size.calls[i].who # "id" =>
                  size.calls[i].ctx = ExpectedCtx(FieldDecl(FieldNamed(size.calls[i].who)), "encode")
       /\ \A i \in 1..Len(dec.calls) :
              dec.calls[i].who # "id" =>
                  dec.calls[i].ctx = ExpectedCtx(DecFieldOf(dec.calls[i].who), "decode")

\* C7, witness: under a container ctx_is, one field with a ctx of its own
\* that differs from it and one without went through all three.
C7_Witness ==
    /\ Generated /\ enc.pc = "ok" /\ size.pc = "done" /\ dec.pc = "ok"
    /\ schema.ctx_is.encode # None /\ Len(enc.calls) = MaxFields /\ Len(dec.calls) = MaxFields
    /\ \E k \in 1..NumFields :
          FieldDecl(k).ctx.encode \notin {None, schema.ctx_is.encode}

\* The fields of every variant, and those whose own ctx is a literal (or
\* absent) on both sides.
AllFields == UNION {{schema.variants[i].fields[k] : k \in 1..Len(schema.variants[i].fields)} :
                    i \in 1..Len(schema.variants)}
OwnCtxLiteral(f) == {f.ctx.encode, f.ctx.decode} \subseteq {None, "Little", "Big"}

\* decode as it entered on the buffer it was handed, and as it returned.
DecEntered == [DecIdle EXCEPT !.pc = "id", !.input = dec.input, !.trail = dec.trail,
                              !.rest = dec.input, !.out = [state |-> "pending", err |-> NoError]]
DecAtReturn == [dec EXCEPT !.out = [state |-> "pending", err |-> NoError]]

\* encode, encoded_size and decode do under every context a caller can
\* pass what they did under ctx.
SameForEveryCaller ==
    \A c2 \in CallerCtxs(schema) :
        /\ EncReturned => Encode(Data, value, c2, EncIdle) = enc
        /\ size.pc = "done" => encoded_size_arm(Data, value, c2) = size
        /\ DecReturned => Decode(Data, c2, DecEntered) = DecAtReturn

\* C8 (as amended): fixed context.  Under a schema that declares ctx_is and
\* whose fields' own ctx, if any, is a literal, the bytes written, the size
\* returned, the value decoded and the contexts passed to the field codecs
\* are the same for every context the caller can pass: of any type when no
\* ctx is declared, of the declared type otherwise.
C8_FixedContext ==
    (Generated /\ schema.ctx_is.encode # None /\ schema.ctx_is.decode # None
        /\ \A f \in AllFields : OwnCtxLiteral(f))
    => SameForEveryCaller

\* C8, witness: under ctx_is a struct with a u32 field, whose bytes depend
\* on the context it is passed, went through all three.
C8_Witness ==
    /\ Generated /\ schema.ctx_is.encode # None /\ schema.ctx_is.decode # None
    /\ \A f \in AllFields : OwnCtxLiteral(f)
    /\ enc.pc = "ok" /\ size.pc = "done" /\ dec.pc = "ok"
    /\ \E k \in 1..NumFields :
          /\ FieldDecl(k).ty = "u32" /\ FieldDecl(k).ctx = Single(None)
          /\ FieldDecl(k).with = None /\ FieldDecl(k).encode_with = None

\* C8 (as claimed): under a schema that declares ctx_is, the bytes written,
\* the size returned and the value decoded are the same for every context
\* the caller passes.
C8_FixedContextEverySchema ==
    (Generated /\ schema.ctx_is.encode # None /\ schema.ctx_is.decode # None)
    => SameForEveryCaller

\* The first variant carrying the id the caller's context hands down.
Selected == CHOOSE i \in 1..Len(schema.variants) :
                /\ schema.variants[i].id = ctx.id
                /\ \A j \in 1..(i - 1) : schema.variants[j].id # ctx.id

\* C9: computed tag.  For an enum whose id is an expression over the
\* caller's context (no id_type), decode reads nothing for the id and
\* selects the variant by the expression's value alone, and encode writes
\* no id, so a variant without fields is written as, and decoded from, no
\* byte at all.
C9_ComputedTag ==
    (Generated /\ ComputedTag)
    => /\ \A i \in 1..Len(enc.calls) : enc.calls[i].who # "id"
       /\ \A i \in 1..Len(dec.calls) : dec.calls[i].who # "id"
       /\ dec.pc = "match" => (dec.rest = dec.input /\ dec.id = ctx.id)
       /\ (dec.pc \in {"field", "ok"} \/ (dec.pc = "err" /\ ctx.id \in VariantIds))
              => dec.arm = Selected
       /\ (enc.pc = "ok" /\ NumFields = 0) => enc.sink = <<>>
       /\ (DecReturned /\ ctx.id \in VariantIds /\ schema.variants[Selected].fields = <<>>)
              => (dec.pc = "ok" /\ dec.rest = dec.input)

\* C9, witness: an enum with a computed id wrote a variant without fields
\* as no byte and decoded the second variant from an empty buffer.
C9_Witness ==
    /\ Generated /\ ComputedTag /\ enc.pc = "ok" /\ enc.sink = <<>>
    /\ dec.pc = "ok" /\ dec.input = <<>> /\ dec.arm = MaxVariants

\* The schema with the encode side of its id_expr taken off.
Unchecked(r) == [r EXCEPT !.id_expr = Multi(None, r.id_expr.decode)]

\* C10 (as amended): encode id-check.  When an enum declares
\* id_expr(encode) and its value differs from the literal id of the value's
\* variant, encode fails with the custom error `id context does not match
\* variant id`, which wraps no cause and is no TagError, before it writes
\* anything; when it is equal encode does what it does without the check.
C10_EncodeIdCheck ==
    (Generated /\ schema.id_expr.encode # None /\ EncReturned)
    => IF ctx.id # Variant.id
       THEN /\ enc.pc = "err"
            /\ enc.err = Custom("id context does not match variant id", 0)
            /\ enc.sink = <<>> /\ enc.calls = <<>>
       ELSE enc = Encode(validate(Unchecked(schema)).data, value, ctx, EncIdle)

\* C10, witness: an enum with an id_type refused to encode a variant under
\* a context carrying the id of another.
C10_Witness ==
    /\ Generated /\ schema.id_expr.encode # None /\ schema.id_type # None
    /\ enc.pc = "err" /\ ctx.id # Variant.id /\ ctx.id \in VariantIds

\* C10 (as claimed): when the id check fails, encode fails with a TagError.
C10_EncodeIdCheckTagError ==
    (Generated /\ schema.id_expr.encode # None /\ EncReturned /\ ctx.id # Variant.id)
    => /\ enc.pc = "err"
       /\ enc.err # <<>> /\ enc.err[1].kind = "TagError"

\* The schema has no error of its own (in its id attributes).
ContainerSound == IdSourceErrors(schema) \o ShapeErrors(schema) = <<>>

\* The codec a field declaration selects for a capability: the separate
\* hook of that capability, else the hook module, else the type's own;
\* encoded_size has no separate hook.
SelectedPath(f, cap) ==
    LET own == IF cap = "encoded_size" THEN None ELSE f[cap \o "_with"]
    IN  IF own # None THEN Path(own, f.ty)
        ELSE IF f.with # None THEN Path(f.with, f.ty)
        ELSE Path(None, f.ty)

\* Every logged field call of the three capabilities went to the codec
\* `sel` selects for the field.
CallsFollow(sel(_, _)) ==
    /\ \A i \in 1..Len(enc.calls) :
          enc.calls[i].who # "id" =>
              enc.calls[i].path = sel(FieldDecl(FieldNamed(enc.calls[i].who)), "encode")
    /\ \A i \in 1..Len(dec.calls) :
          dec.calls[i].who # "id" =>
              dec.calls[i].path = sel(DecFieldOf(dec.calls[i].who), "decode")
    /\ \A i \in 1..Len(size.calls) :
          size.calls[i].who # "id" =>
              size.calls[i].path = sel(FieldDecl(FieldNamed(size.calls[i].who)), "encoded_size")

\* A field declares a hook module together with a separate hook.
HookClash(f) == f.with # None /\ (f.encode_with # None \/ f.decode_with # None)

ClaimedPath(f, cap) ==
    LET own == f[(IF cap = "decode" THEN "decode" ELSE "encode") \o "_with"]
    IN  IF own # None THEN Path(own, f.ty)
        ELSE IF f.with # None THEN Path(f.with, f.ty)
        ELSE IF f.via # None THEN Path("Via", f.ty)
        ELSE Path(None, f.ty)

C12_AdapterAccepted ==
    (gen # "pending" /\ ContainerSound /\ (\A f \in AllFields : ~HookClash(f))
        /\ \E f \in AllFields : f.via # None)
    => Generated

\* The name a failure of field number k (from 1) is to carry: the field's
\* name, or field_<index> with the index counted from 0.
ClaimedName(f, k) == IF f.ident # None THEN f.ident ELSE <<"field_0", "field_1", "field_2">>[k]

Last(seq) == seq[Len(seq)]
Kinds(err) == [i \in 1..Len(err) |-> err[i].kind]

\* The wrappers around the error of a codec of a field of type ty: one for
\* the field, and one for the field of Inner when the type is Inner.
FieldKinds(ty) ==
    IF ty = "Inner" THEN <<"FieldError", "FieldError", "Other">> ELSE <<"FieldError", "Other">>

\* What the macros generate for InnerSchema, run from entry to return.
InnerGeneratedEncode(v, c) ==
    LET e == Encode(validate(InnerSchema).data, [variant |-> 1, fields |-> <<v>>], c, EncIdle)
    IN  IF e.pc = "ok" THEN EncOk(e.sink) ELSE EncErr(e.sink, e.err)
InnerGeneratedDecode(c, src) ==
    LET d == Decode(validate(InnerSchema).data, c,
                    [DecIdle EXCEPT !.pc = "id", !.input = src, !.rest = src])
    IN  IF d.pc = "ok" THEN DecOk(d.owned[1], d.rest) ELSE DecErr(d.rest, d.err)

\* encode failed in the codec of field enc.k; decode failed in the codec
\* of the id, or of field dec.k.
EncFieldFailed == Generated /\ enc.pc = "err" /\ enc.calls # <<>>
DecTagFailed == Generated /\ dec.pc = "err" /\ dec.arm = 0 /\ dec.id = NoId
DecFieldFailed == Generated /\ dec.pc = "err" /\ dec.arm # 0

\* C13: failure annotation.  The error of a field codec comes back from
\* encode and decode as a FieldError naming the field (field_<index> for a
\* positional one) around the codec's own error, the error of the id codec
\* as a TagError around it; a field whose type is itself derived thus
\* gives one FieldError per enclosing field, outermost first.
C13_FailureAnnotation ==
    /\ EncFieldFailed =>
          LET call == Last(enc.calls)
              cause == CallEncode(call.path, value.fields[enc.k], call.ctx).err
          IN  /\ cause # <<>>
              /\ enc.err = <<Frame("FieldError", ClaimedName(FieldDecl(enc.k), enc.k), 0)>> \o cause
              /\ Kinds(enc.err) = FieldKinds(FieldDecl(enc.k).ty)
              /\ FieldDecl(enc.k).ty = "Inner" =>
                    cause = InnerGeneratedEncode(value.fields[enc.k], call.ctx).err
    /\ DecTagFailed =>
          LET cause == TypeDecode(schema.id_type, Last(dec.calls).ctx, dec.rest).err
          IN  /\ cause # <<>>
              /\ dec.err = <<Frame("TagError", "", 0)>> \o cause
              /\ Kinds(dec.err) = <<"TagError", "Other">>
    /\ DecFieldFailed =>
          LET call == Last(dec.calls)
              cause == CallDecode(call.path, call.ctx, dec.rest).err
          IN  /\ cause # <<>>
              /\ dec.err = <<Frame("FieldError", ClaimedName(DecField, dec.k), 0)>> \o cause
              /\ Kinds(dec.err) = FieldKinds(DecField.ty)
              /\ DecField.ty = "Inner" =>
                    /\ dec.err[2].label = "y"
                    /\ cause = InnerGeneratedDecode(call.ctx, dec.rest).err

\* C13, witness: a field of type Inner failed in encode and in decode, each
\* giving two FieldErrors around the cause.
C13_Witness ==
    /\ EncFieldFailed /\ Len(enc.err) = 3
    /\ DecFieldFailed /\ Len(dec.err) = 3

\* The sources of the tag a decode dispatches on that the schema declares.
DecodeTagSources ==
    (IF schema.id_type # None THEN {"id_type"} ELSE {})
    \cup (IF schema.id_expr.decode # None THEN {"id_expr"} ELSE {})

\* C14: exactly one tag source.  A union passes validation only with
\* exactly one source of the decode-side tag, a discriminant type or a tag
\* expression usable on decode: with neither and with both it is rejected.
C14_ExactlyOneTagSource ==
    (gen # "pending" /\ schema.kind = "enum")
    => (Generated => Cardinality(DecodeTagSources) = 1)

\* C14, what validation does enforce: a union with no tag directive at all
\* is rejected, one with both sources of the decode-side tag is rejected,
\* and one whose only tag directive is the encode-side tag expression
\* passes.
C14_TagSourceValidated ==
    (gen # "pending" /\ schema.kind = "enum")
    => /\ (schema.id_type = None /\ Asym_is_none(schema.id_expr)) => gen = "rejected"
       /\ Cardinality(DecodeTagSources) = 2 => gen = "rejected"
       /\ (Cardinality(DecodeTagSources) = 1 /\ \A f \in AllFields : from_field(f) = <<>> /\ ~HookClash(f))
              => Generated
       /\ (DecodeTagSources = {} /\ schema.id_expr.encode # None) => Generated

\* C14, witness: a union with only an encode-side tag expression passed
\* validation and encoded a value.
C14_Witness ==
    /\ Generated /\ schema.kind = "enum" /\ DecodeTagSources = {}
    /\ enc.pc = "ok"

\* A tag directive: id_type, or id_expr in its single or a split form.
TagDirective == schema.id_type # None \/ schema.id_expr.encode # None \/ schema.id_expr.decode # None

\* No generated function has been entered.
NothingGenerated == enc = EncIdle /\ size = SizeIdle /\ dec = DecIdle

\* C15: a record (non-union) schema declaring any tag directive, a
\* discriminant type or a tag expression in single or split form, is
\* rejected when processed, and none of encode, decode and encoded_size is
\* generated for it.
C15_RecordTagRejected ==
    (gen # "pending" /\ schema.kind = "struct" /\ TagDirective)
    => (gen = "rejected" /\ NothingGenerated)

\* C15, witness: a record with fields declaring only the decode form of the
\* tag expression has been processed and rejected.
C15_Witness ==
    /\ gen = "rejected" /\ schema.kind = "struct" /\ AllFields # {}
    /\ schema.id_type = None /\ schema.id_expr = Multi(None, "id")
    /\ \A f \in AllFields : FieldReceiver_validate(f, 0).errors = <<>>

\* C16: a field declaring a combined hook module (with) together with a
\* separate encode hook or a separate decode hook is rejected when the
\* schema is processed, so that none of encode, decode and encoded_size is
\* generated, on whichever side the clash is.
C16_HookClashRejected ==
    (gen # "pending" /\ \E f \in AllFields :
        f.with # None /\ (f.encode_with # None \/ f.decode_with # None))
    => (gen = "rejected" /\ NothingGenerated)

\* C16, witness: a schema that is otherwise sound, with a field declaring
\* a hook module and a decode hook and no encode hook, has been rejected.
C16_Witness ==
    /\ gen = "rejected" /\ ContainerSound
    /\ \A f \in AllFields : f.via = None /\ f.encode_with = None
    /\ \E f \in AllFields : f.with # None /\ f.decode_with # None

\* The codec call the decode is about to make fails: that of the id, or
\* that of a field that is not skipped.
DecIdCallFails ==
    /\ dec.pc = "id" /\ schema.id_type # None /\ schema.id_expr.decode = None
    /\ ~TypeDecode(schema.id_type,
                   EvalCtx(IF schema.id_ctx.decode = None THEN "()" ELSE schema.id_ctx.decode, ctx),
                   dec.rest).ok
DecFieldCallFails ==
    /\ dec.pc = "field" /\ ~DecSkipped
    /\ ~CallDecode(SelectedPath(DecField, "decode"), ExpectedCtx(DecField, "decode"), dec.rest).ok

\* Field k of the selected case is bound in the returned value: defaulted
\* by its skip predicate, or decoded by a call made for it.
DecBound(k) ==
    LET f == schema.variants[dec.arm].fields[k]
    IN  /\ k <= Len(dec.owned)
        /\ \/ f.skip_if.on # 0 /\ dec.owned[f.skip_if.on] = f.skip_if.eq
                /\ dec.owned[k] = Default(f.ty)
           \/ \E i \in 1..Len(dec.calls) : dec.calls[i].who = ClaimedName(f, k)

\* A failing call ends the decode in an error, and an error is final:
\* nothing is decoded or bound after it.
C17_Step ==
    /\ (DecIdCallFails \/ DecFieldCallFails) => dec'.pc = "err"
    /\ dec.pc = "err" => (dec'.pc = "err" /\ dec'.err = dec.err /\ dec'.owned = dec.owned
                          /\ dec'.rest = dec.rest /\ dec'.calls = dec.calls)

\* A decode that returned gives a complete value or an error, never both.
C17_Return ==
    /\ (Generated /\ dec.pc = "ok") =>
          /\ dec.err = NoError /\ dec.arm \in 1..Len(schema.variants)
          /\ Len(dec.owned) = Len(schema.variants[dec.arm].fields)
          /\ \A k \in 1..Len(schema.variants[dec.arm].fields) : DecBound(k)
    /\ (Generated /\ dec.pc = "err") => (dec.err # NoError /\ dec.out.state # "ok")
    /\ dec.out.state = "ok" => dec.pc = "ok"

\* C17: decode is all-or-nothing.  A generated decode returns a complete
\* value, every field of the selected case decoded or defaulted by a true
\* skip predicate, or an error; once a tag or field codec call fails the
\* decode returns the error and no value, whatever was decoded before.
C17_AllOrNothing == [][C17_Step]_vars /\ []C17_Return

\* C17, witness: a decode failed at its second field, after the first was
\* decoded, and returned the error.
C17_Witness ==
    /\ Generated /\ dec.pc = "err" /\ dec.k = 2 /\ Len(dec.owned) = 1
    /\ dec.out.state = "err"

\* The position in the declaration of the matched case of the field a
\* logged decode call was made for.
DecCallIndex(i) ==
    CHOOSE k \in 1..Len(schema.variants[dec.arm].fields) :
        ClaimedName(schema.variants[dec.arm].fields[k], k) = dec.calls[i].who

\* The step makes a field codec call of decode.
DecFieldCalled ==
    /\ Len(dec'.calls) = Len(dec.calls) + 1
    /\ Last(dec'.calls).who # "id"

\* A step of decode moves the source forward or leaves it, and a field
\* codec is called only with the case fixed and, where a discriminant type
\* is declared, its bytes consumed by the one call made so far for it; a
\* step of encode keeps what the sink holds and appends.
C18_Step ==
    /\ /\ Len(dec'.input) - Len(dec'.rest) >= Consumed
       /\ dec'.rest = Drop(dec'.input, Len(dec'.input) - Len(dec'.rest))
       /\ dec.pc # "idle" => dec'.input = dec.input
    /\ DecFieldCalled =>
          /\ dec.arm # 0 /\ dec'.arm = dec.arm
          /\ Data.id_decoder # None =>
                /\ Len(dec.calls) >= 1 /\ dec.calls[1].who = "id"
                /\ \A i \in 2..Len(dec.calls) : dec.calls[i].who # "id"
                /\ Consumed >= Width(Data.id_decoder)
                /\ dec.id = IntValue(Take(dec.input, Width(Data.id_decoder)),
                                     IF Data.id_decoder = "u8" THEN "Little"
                                     ELSE dec.calls[1].ctx.endian)
    /\ /\ Len(enc'.sink) >= Len(enc.sink)
       /\ Take(enc'.sink, Len(enc.sink)) = enc.sink

\* The field calls of decode so far are in declaration order.
C18_Order ==
    Generated =>
        \A i, j \in 1..Len(dec.calls) :
            (i < j /\ dec.calls[i].who # "id" /\ dec.calls[j].who # "id")
            => DecCallIndex(i) < DecCallIndex(j)

\* C18: single-pass ordering.  During a generated decode the source
\* position never decreases; for a union with a discriminant type the tag
\* bytes are consumed before any field byte and the variant is fixed before
\* the first field codec is called; fields are decoded in declaration
\* order; during a generated encode the sink only grows by appending.
C18_SinglePass == [][C18_Step]_vars /\ []C18_Order

\* C18, witness: a union with a discriminant type has decoded its tag and
\* then two fields of the matched variant, and its encode wrote them.
C18_Witness ==
    /\ Generated /\ schema.kind = "enum" /\ schema.id_type # None
    /\ dec.pc = "ok" /\ Len(dec.calls) = 3 /\ Consumed > Width(schema.id_type)
    /\ enc.pc = "ok" /\ Len(enc.sink) > Width(schema.id_type)

\* The calls run alone, from their entry to their return.
EncodeAlone == Encode(Data, value, ctx, EncIdle)
EncodedSizeAlone == encoded_size_arm(Data, value, ctx)
DecodeAlone == Decode(Data, ctx, DecEntered)

Wrappers(e) == Cardinality({i \in 1..Len(e) : e[i].kind \in {"TagError", "FieldError", "Other"}})
Innermost(e) == IF Last(e).kind = "Other" THEN Std(Last(e).label) ELSE <<Last(e)>>

\* source() followed n times from e.
RECURSIVE SourceN(_, _)
SourceN(e, n) == IF n = 0 \/ e = NoSource THEN e ELSE SourceN(source(e), n - 1)

\* C20: cause preservation.  An error wrapped as a TagError, a FieldError
\* or an Other keeps the inner error as its source: from the outermost of
\* n wrappers, source() followed n times reaches the innermost cause, each
\* step before it a wrapper; RemainingBytes, UnexpectedLength and Custom
\* errors have no source.
C20_CausePreserved ==
    LET e == held.err
        n == Wrappers(e)
    IN  e # NoError =>
          /\ SourceN(e, n) = Innermost(e)
          /\ \A i \in 0..(n - 1) : SourceN(e, i) # NoSource /\ SourceN(e, i + 1) # NoSource
          /\ held.at = SourceN(e, held.steps) /\ held.steps <= n
          /\ e[1].kind \in {"RemainingBytes", "UnexpectedLength", "Custom"} => source(e) = NoSource
          /\ Innermost(e)[1].kind \in {"RemainingBytes", "UnexpectedLength", "Custom"}
                => source(Innermost(e)) = NoSource

\* C20, witness: an error of the standard library, wrapped by Error::wrap,
\* as a FieldError and as a TagError, has been followed three times to it.
C20_Witness ==
    /\ Wrappers(held.err) = 3 /\ held.err[1].kind = "TagError" /\ held.err[2].kind = "FieldError"
    /\ held.steps = 3 /\ held.at = Std("UnexpectedEof")

\* ------------------------------------------------------ adapters: helpers
UtilEncFailed == util.encoded /\ ~util.out.ok
UtilDecFailed == util.decoded /\ ~util.dec.ok
IsPrefixed == util.cd.kind \in {"Bytes", "PrefixVec"}
Opaque(e) == Len(e) = 1 /\ e[1].kind = "Other" /\ source(e) = Std(e[1].label)
Message(e) == Len(e) = 1 /\ e[1].kind = "Custom" /\ source(e) = NoSource
\* The length of the value does not fit the prefix type.
Overflows == IsPrefixed /\ Len(util.val) > PrefixMax(util.cd.P)
\* The source starts with a prefix that is negative.
NegativePrefix == IsPrefixed /\ util.cd.P = "i8" /\ util.input # <<>> /\ util.input[1] >= 128
\* The source starts with a byte that is no boolean.
NoBoolean ==
    util.cd.kind \in {"zero_one", "ZeroOne"} /\ util.input # <<>> /\ util.input[1] \notin {0, 1}
InvalidUtf8 ==
    util.cd.kind = "utf8" /\ Len(util.input) >= Len(util.val)
        /\ ~from_utf8(Take(util.input, Len(util.val)))

\* C21 as stated: every failure raised inside a codec reaches the caller
\* as an opaque-wrapped error whose source is the foreign cause.
C21_EveryFailureOpaque ==
    /\ UtilEncFailed => Opaque(util.out.err)
    /\ UtilDecFailed => Opaque(util.dec.err)

\* C21: a failed read or write and invalid UTF-8 reach the caller as an
\* opaque-wrapped error whose source is the foreign cause (the I/O error,
\* the FromUtf8Error); a length that does not convert to or from the prefix
\* type, a byte that is no boolean and a magic mismatch reach the caller as
\* a custom-message error, which has no source.
C21_FailureKinds ==
    /\ UtilEncFailed =>
          IF Overflows THEN Message(util.out.err)
          ELSE Opaque(util.out.err) /\ util.out.err[1].label = "WriteZero"
    /\ UtilDecFailed =>
          /\ Opaque(util.dec.err) \/ Message(util.dec.err)
          /\ Opaque(util.dec.err) => util.dec.err[1].label \in {"UnexpectedEof", "FromUtf8Error"}
          /\ NoBoolean \/ NegativePrefix => Message(util.dec.err)
          /\ InvalidUtf8 => Opaque(util.dec.err) /\ source(util.dec.err) = Std("FromUtf8Error")
          /\ util.input = <<>> =>
                Opaque(util.dec.err) /\ source(util.dec.err) = Std("UnexpectedEof")
    /\ util.decoded /\ (NoBoolean \/ NegativePrefix \/ InvalidUtf8) => ~util.dec.ok

C21_Witness ==
    /\ UtilEncFailed /\ Overflows /\ UtilDecFailed /\ NegativePrefix
C21_WitnessOpaque ==
    /\ UtilEncFailed /\ ~Overflows /\ UtilDecFailed /\ InvalidUtf8

\* ------------------------------------------------------------ C22: helpers
\* Two variants of the enum carry the same literal tag.
HasDuplicate ==
    /\ schema.kind = "enum"
    /\ \E i, j \in 1..Len(schema.variants) : i < j /\ schema.variants[i].id = schema.variants[j].id
\* The variants that carry a tag an earlier variant carries too.
LaterDuplicates ==
    {j \in 1..Len(schema.variants) :
        \E i \in 1..(j - 1) : schema.variants[i].id = schema.variants[j].id}
\* The schema with the tags made distinct.
Distinct(r) == [r EXCEPT !.variants = [i \in 1..Len(r.variants) |-> [r.variants[i] EXCEPT !.id = i]]]
\* encode compares the tag of the value's variant with an expression.
IdChecked == schema.kind = "enum" /\ schema.id_expr.encode # None

\* C22: first match on decode.  An enum with two variants of equal literal
\* tags is accepted wherever the same enum with distinct tags is; decode
\* selects the first declared variant carrying the tag it obtained; a value
\* of a later variant with a duplicated tag encodes successfully, and no
\* decode ever returns a value of such a variant, so what encode wrote for
\* it does not decode back to it.
C22_FirstMatch ==
    /\ HasDuplicate => derive(schema).ok = derive(Distinct(schema)).ok
    /\ (HasDuplicate /\ gen # "pending") => (Generated <=> derive(Distinct(schema)).ok)
    /\ (Generated /\ schema.kind = "enum" /\ dec.arm # 0) =>
          /\ schema.variants[dec.arm].id = dec.id
          /\ \A j \in 1..(dec.arm - 1) : schema.variants[j].id # dec.id
    /\ (Generated /\ HasDuplicate /\ value.variant \in LaterDuplicates /\ EncReturned
            /\ (IdChecked => ctx.id = Variant.id))
          => enc.pc = "ok"
    /\ (Generated /\ HasDuplicate /\ dec.pc = "ok") =>
          /\ Decoded(dec).variant \notin LaterDuplicates
          /\ value.variant \in LaterDuplicates => Decoded(dec) # value

\* C22, witness: a value of the second of two variants with one tag was
\* encoded, and decode of what was written returned the first variant.
C22_Witness ==
    /\ HasDuplicate /\ value.variant \in LaterDuplicates /\ DecodedOwnBytes
    /\ dec.pc = "ok" /\ Decoded(dec).variant = 1 /\ dec.id = Variant.id

\* ------------------------------------------------------------ C23: helpers
\* The field whose value the skip_if of field k reads (0: no skip_if).
SkipOn(k) == FieldDecl(k).skip_if.on
\* The codec of field k is among the calls logged.
CalledIn(calls, k) == \E i \in 1..Len(calls) : calls[i].who = FieldName(k)

\* C23 as stated: in encode and encoded_size as in decode, a skip predicate
\* reads only fields declared earlier than its own.
C23_EarlierOnly ==
    (Generated /\ (enc.pc = "ok" \/ size.pc = "done"))
    => \A k \in 1..NumFields : SkipOn(k) < k

\* C23: skip predicate scope.  In decode the fields bound when the skip
\* predicate of field k is evaluated are the k - 1 fields declared before
\* it, and the predicate reads one of them.  In encode and encoded_size the
\* pattern of the case binds every field before the first predicate is
\* evaluated: a predicate may read its own field or a later one, and the
\* field is written and counted exactly when the predicate is false of the
\* value it names.
C23_SkipScope ==
    /\ (Generated /\ dec.pc = "field") =>
          /\ Len(dec.owned) = dec.k - 1
          /\ DecField.skip_if.on < dec.k
    /\ Generated => \A k \in 1..NumFields : SkipOn(k) \in 0..NumFields
    /\ (Generated /\ enc.pc = "ok") =>
          \A k \in 1..NumFields : CalledIn(enc.calls, k) <=> ~Skipped(k)
    /\ (Generated /\ size.pc = "done") =>
          \A k \in 1..NumFields : CalledIn(size.calls, k) <=> ~Skipped(k)

\* C23, witness: encode and encoded_size have left out the first field on
\* the value of the second, and written the second.
C23_Witness ==
    /\ Generated /\ enc.pc = "ok" /\ size.pc = "done" /\ NumFields = 2
    /\ SkipOn(1) = 2 /\ Skipped(1)
    /\ ~CalledIn(enc.calls, 1) /\ CalledIn(enc.calls, 2) /\ ~CalledIn(size.calls, 1)
\* C23, witness of decode: a skip predicate was evaluated over the one
\* field bound before it.
C23_WitnessDecode ==
    /\ Generated /\ dec.pc = "field" /\ dec.k = 2 /\ DecField.skip_if.on = 1

\* --------------------------------------------------- C24..C28: helpers
IsBoolean == util.cd.kind \in {"zero_one", "ZeroOne"}
IsBytes == util.cd.kind = "Bytes"
IsPrefixVec == util.cd.kind = "PrefixVec"
IsMagic == util.cd.kind = "magic_bytes"
\* encode was given a writer that takes every byte.
UtilEncoded == util.encoded /\ util.room = Unbounded
UtilConsumed == Len(util.input) - Len(util.dec.rest)
\* decode was handed what encode wrote, or that and one byte more.
UtilOwnBytes ==
    /\ util.decoded
    /\ LET e == util_encode(util.cd, util.val, util.ctx, Unbounded)
       IN  e.ok /\ util.input \in {e.bytes, e.bytes \o <<7>>}
\* The number n as the prefix type lays it out under the context.
LenAs(P, n, c) ==
    IF P \in {"u8", "i8"} THEN <<n>>
    ELSE IF c.endian = "Little" THEN <<n % 256, n \div 256>>
    ELSE <<n \div 256, n % 256>>
\* The prefix at the head of the source, as a number.
LenRead ==
    IF util.cd.P = "u8" THEN util.input[1]
    ELSE IF util.cd.P = "i8" THEN (IF util.input[1] < 128 THEN util.input[1] ELSE util.input[1] - 256)
    ELSE IF util.ctx.endian = "Little" THEN util.input[1] + 256 * util.input[2]
    ELSE 256 * util.input[1] + util.input[2]
\* The elements of v laid out one after the other under the context.
Flat(A, v, c) ==
    [j \in 1..(Len(v) * Width(A)) |->
        LET x == v[((j - 1) \div Width(A)) + 1]
        IN  IF A = "u8" THEN x
            ELSE IF c.endian = "Little" THEN (IF j % 2 = 1 THEN x % 256 ELSE x \div 256)
            ELSE (IF j % 2 = 1 THEN x \div 256 ELSE x % 256)]

\* C24: boolean adapter.  zero_one and ZeroOne write exactly one byte, 0
\* for false and 1 for true, under any context; decode consumes exactly
\* one byte and returns false for 0, true for 1 and an error for every
\* other byte; encoded_size is 1; decode of what encode wrote returns the
\* boolean.
C24_BooleanAdapter ==
    IsBoolean =>
       /\ (util.encoded /\ util.room >= 1) =>
             util.out.ok /\ util.out.bytes = <<IF util.val THEN 1 ELSE 0>>
       /\ util.sized => util.size = 1
       /\ (util.decoded /\ util.input # <<>>) =>
             /\ util.dec.rest = Tail(util.input)
             /\ util.input[1] = 0 => (util.dec.ok /\ util.dec.val = FALSE)
             /\ util.input[1] = 1 => (util.dec.ok /\ util.dec.val = TRUE)
             /\ util.input[1] \notin {0, 1} => ~util.dec.ok
       /\ UtilOwnBytes => (util.dec.ok /\ util.dec.val = util.val /\ UtilConsumed = 1)

\* C24, witness: true was written under a context that is not the unit,
\* decoded back, and the byte 2 was refused.
C24_Witness ==
    /\ IsBoolean /\ util.ctx # UnitCtx /\ util.val /\ UtilEncoded /\ util.sized
    /\ UtilOwnBytes /\ util.dec.ok /\ util.dec.rest = <<7>>
C24_WitnessRefused ==
    /\ IsBoolean /\ util.decoded /\ util.input = <<2>> /\ ~util.dec.ok /\ util.dec.rest = <<>>

\* C25: length-prefixed bytes.  For a payload whose length fits P, encode
\* writes the length as a P under the context, then the payload; decode
\* reads a P, converts it to n and consumes exactly n further bytes, which
\* it returns; encoded_size is the size of a default P plus the payload
\* length; decode of what encode wrote returns the payload.
C25_PrefixedBytes ==
    IsBytes =>
       /\ (UtilEncoded /\ ~Overflows) =>
             /\ util.out.ok
             /\ util.out.bytes = LenAs(util.cd.P, Len(util.val), util.ctx) \o util.val
       /\ util.sized => util.size = PrefixWidth(util.cd.P) + Len(util.val)
       /\ (util.decoded /\ util.dec.ok) =>
             /\ UtilConsumed = PrefixWidth(util.cd.P) + LenRead
             /\ util.dec.val = SubSeq(util.input, PrefixWidth(util.cd.P) + 1, UtilConsumed)
             /\ util.dec.rest = Drop(util.input, UtilConsumed)
       /\ (util.decoded /\ Len(util.input) >= PrefixWidth(util.cd.P)) =>
             (util.dec.ok <=> (LenRead >= 0
                                  /\ Len(util.input) >= PrefixWidth(util.cd.P) + LenRead))
       /\ UtilOwnBytes => (util.dec.ok /\ util.dec.val = util.val)

\* C25, witness: a payload behind a two-byte big-endian length was written
\* and decoded back with a byte left after it.
C25_Witness ==
    /\ IsBytes /\ util.cd.P = "u16" /\ util.ctx = EndianCtx("Big") /\ Len(util.val) = MaxPayload
    /\ UtilEncoded /\ util.sized /\ UtilOwnBytes /\ util.dec.ok /\ util.dec.rest = <<7>>

\* C26: length-prefixed collection.  PrefixVec<P, A> writes the number of
\* elements (not of bytes) as a P under the caller's context, then each
\* element in order under that context; decode reads the count n and then
\* exactly n elements; encoded_size is the size of a default P plus the sum
\* of the elements' sizes; decode of what encode wrote returns the elements.
C26_PrefixedCollection ==
    IsPrefixVec =>
       /\ (UtilEncoded /\ ~Overflows) =>
             /\ util.out.ok
             /\ util.out.bytes = LenAs(util.cd.P, Len(util.val), util.ctx)
                                    \o Flat(util.cd.A, util.val, util.ctx)
       /\ util.sized => util.size = PrefixWidth(util.cd.P) + Len(util.val) * Width(util.cd.A)
       /\ (util.decoded /\ util.dec.ok) =>
             /\ Len(util.dec.val) = LenRead
             /\ UtilConsumed = PrefixWidth(util.cd.P) + LenRead * Width(util.cd.A)
             /\ Flat(util.cd.A, util.dec.val, util.ctx)
                   = SubSeq(util.input, PrefixWidth(util.cd.P) + 1, UtilConsumed)
             /\ util.dec.rest = Drop(util.input, UtilConsumed)
       /\ UtilOwnBytes => (util.dec.ok /\ util.dec.val = util.val)

\* C26, witness: two-byte elements were written big-endian behind their
\* count and decoded back.
C26_Witness ==
    /\ IsPrefixVec /\ util.cd.A = "u16" /\ util.ctx = EndianCtx("Big") /\ Len(util.val) = 127
    /\ util.val[1] = 300
    /\ UtilEncoded /\ util.sized /\ UtilOwnBytes /\ util.dec.ok /\ util.dec.rest = <<7>>

\* C27: prefix overflow.  When the payload length of a Bytes<P> or the
\* element count of a PrefixVec<P, A> is not representable in P, encode
\* returns an error having written no byte, and encoded_size still returns
\* the prefix size plus the payload size.
C27_PrefixOverflow ==
    Overflows =>
       /\ util.encoded => (~util.out.ok /\ util.out.bytes = <<>>)
       /\ util.sized =>
             util.size = PrefixWidth(util.cd.P)
                            + Len(util.val) * (IF IsBytes THEN 1 ELSE Width(util.cd.A))

\* C27, witness: encode of 256 two-byte elements behind a one-byte count
\* has failed and encoded_size has returned 513.
C27_Witness ==
    /\ Overflows /\ IsPrefixVec /\ util.cd.P = "u8" /\ util.cd.A = "u16"
    /\ UtilEncoded /\ ~util.out.ok /\ util.sized /\ util.size = 2 * MaxPayload + 1
C27_WitnessBytes ==
    /\ Overflows /\ IsBytes /\ UtilEncoded /\ ~util.out.ok /\ util.sized

\* C28: magic bytes.  A type of magic_bytes! with the constant B writes
\* exactly B under any context, has the encoded_size Len(B), and its decode
\* consumes exactly Len(B) bytes and succeeds if and only if they are B.
C28_MagicBytes ==
    IsMagic =>
       LET B == IF util.cd.A = "Foo" THEN <<70, 79, 79>> ELSE <<66, 65, 82>>
       IN  /\ (util.encoded /\ util.room >= 3) => (util.out.ok /\ util.out.bytes = B)
           /\ util.sized => util.size = 3
           /\ (util.decoded /\ Len(util.input) >= 3) =>
                 /\ util.dec.rest = Drop(util.input, 3)
                 /\ util.dec.ok <=> Take(util.input, 3) = B
           /\ (util.decoded /\ Len(util.input) < 3) => ~util.dec.ok

\* C28, witness: Foo has refused the bytes of Bar, having consumed them.
C28_Witness ==
    /\ IsMagic /\ util.cd.A = "Foo" /\ util.ctx # UnitCtx /\ UtilEncoded /\ util.sized
    /\ util.decoded /\ util.input = <<66, 65, 82>> /\ ~util.dec.ok /\ util.dec.rest = <<>>
C28_WitnessAccepted ==
    /\ IsMagic /\ UtilOwnBytes /\ util.dec.ok /\ util.dec.rest = <<7>>

\* ------------------------------------------------------------ C29: helpers
\* The call encoded_size logged for field k.
SizeCall(k) == size.calls[CHOOSE i \in 1..Len(size.calls) : size.calls[i].who = FieldName(k)]
\* Field k declares a separate hook and no hook module.
SeparateHooks(k) ==
    FieldDecl(k).with = None
        /\ (FieldDecl(k).encode_with # None \/ FieldDecl(k).decode_with # None)

\* C29: size with separate hooks.  The generated encoded_size calls, for a
\* field with a separate encode or decode hook and no hook module, the
\* encoded_size of the field's type, and for a field with a hook module the
\* module's; each under the encode-side context (the field's own, else the
\* container's fixed one, else the caller's), never the decode-side one;
\* and the size returned is the sum of what those calls return.
C29_SizeSeparateHooks ==
    (Generated /\ size.pc = "done")
    => /\ \A k \in 1..NumFields :
             ~Skipped(k) =>
                /\ CalledIn(size.calls, k)
                /\ SizeCall(k).ctx = ExpectedCtx(FieldDecl(k), "encode")
                /\ SeparateHooks(k) => SizeCall(k).path = Path(None, FieldDecl(k).ty)
                /\ FieldDecl(k).with # None =>
                      SizeCall(k).path = Path(FieldDecl(k).with, FieldDecl(k).ty)
       /\ size.size =
             (IF schema.id_type # None THEN Width(schema.id_type) ELSE 0)
             + Sum([k \in 1..NumFields |->
                      IF Skipped(k) THEN 0
                      ELSE IF FieldDecl(k).with # None
                      THEN little_endian_encoded_size(value.fields[k],
                                                      ExpectedCtx(FieldDecl(k), "encode"))
                      ELSE TypeEncodedSize(FieldDecl(k).ty, value.fields[k],
                                           ExpectedCtx(FieldDecl(k), "encode"))])

\* C29, witness: encoded_size has sized a field with separate hooks by its
\* type, and a field whose encode and decode contexts differ.
C29_Witness ==
    /\ Generated /\ size.pc = "done"
    /\ \E k \in 1..NumFields :
          /\ SeparateHooks(k) /\ FieldDecl(k).encode_with = "narrow"
          /\ SizeCall(k).path = Path(None, "u32") /\ size.size >= 4
C29_WitnessSplitCtx ==
    /\ Generated /\ size.pc = "done"
    /\ \E k \in 1..NumFields :
          /\ ExpectedCtx(FieldDecl(k), "encode") # ExpectedCtx(FieldDecl(k), "decode")
          /\ SizeCall(k).ctx = ExpectedCtx(FieldDecl(k), "encode")

\* ------------------------------------------------------------ C30: helpers
\* What the codec of a logged call of encode returned.
ResultOf(call) ==
    IF call.who = "id" THEN TypeEncode(schema.id_type, Variant.id, call.ctx)
    ELSE CallEncode(call.path, value.fields[FieldNamed(call.who)], call.ctx)
\* The codecs encode is to call for the value, in order: the id's when an
\* id_type is declared, then those of the fields that are not skipped.
EncodeOrder ==
    (IF schema.id_type # None THEN <<"id">> ELSE <<>>)
    \o [i \in 1..Len(Written) |-> FieldName(Written[i])]
EncIdCheckFailed == Generated /\ enc.pc = "err" /\ enc.calls = <<>>

\* C30: encode step order and failure effect.  The generated encode runs
\* the id check before any codec, then the id's codec, then the codecs of
\* the fields in declaration order, and returns at the first failure: a
\* failed id check leaves the sink as it was; when a codec fails every
\* codec before it has succeeded, none after it is called, and the sink
\* holds what the earlier codecs wrote followed by what the failing codec
\* wrote before it failed.
C30_EncodeOrder ==
    Generated =>
       /\ Len(enc.calls) <= Len(EncodeOrder)
       /\ [i \in 1..Len(enc.calls) |-> enc.calls[i].who] = Take(EncodeOrder, Len(enc.calls))
       /\ enc.sink = Concat([i \in 1..Len(enc.calls) |-> ResultOf(enc.calls[i]).bytes])
       /\ \A i \in 1..(Len(enc.calls) - 1) : ResultOf(enc.calls[i]).ok
       /\ enc.pc \in {"idle", "id_check"} => (enc.calls = <<>> /\ enc.sink = <<>>)
       /\ (enc.pc \in {"id_encode", "field", "ok"} /\ enc.calls # <<>>) =>
             ResultOf(Last(enc.calls)).ok
       /\ enc.pc = "ok" => Len(enc.calls) = Len(EncodeOrder)
       /\ enc.pc = "err" =>
             IF enc.calls = <<>>
             THEN /\ schema.id_expr.encode # None /\ ctx.id # Variant.id
                  /\ enc.sink = <<>>
                  /\ enc.err = Custom("id context does not match variant id", 0)
             ELSE ~ResultOf(Last(enc.calls)).ok

\* C30, witness: the codec of the second field has failed after it wrote a
\* byte, behind the byte of the first field.
C30_Witness ==
    /\ Generated /\ enc.pc = "err" /\ NumFields = 2 /\ Len(enc.calls) = 2
    /\ ResultOf(enc.calls[1]).bytes # <<>> /\ ResultOf(enc.calls[2]).bytes # <<>>
    /\ Len(enc.sink) = 2
\* C30, witnesses: the first field has failed and the second was not
\* called; the id check has failed.
C30_WitnessFirst ==
    /\ Generated /\ enc.pc = "err" /\ NumFields = 2 /\ Len(enc.calls) = 1 /\ ~Skipped(2)
C30_WitnessIdCheck == EncIdCheckFailed /\ schema.id_type # None
====
